---- MODULE Spec2Model ----
(***************************************************************************)
(* Model of the tools of test_obsidian_work1 (src/src/tools/*.py).          *)
(*                                                                         *)
(* Text is a sequence of one-character strings.  The filesystem holds one  *)
(* path; a tool call reads it, computes and (maybe) writes it back, and    *)
(* returns a message.  The Python built-ins the tools rely on (str.split,  *)
(* str.join, str.splitlines, re.sub, ...) are operators computed the way   *)
(* the built-ins compute them.                                             *)
(***************************************************************************)
EXTENDS Integers, Sequences, FiniteSets, TLC

VARIABLES fs, prev, call, ret, runs, procs, current_simulated_mode, switches, mcp

vars == <<fs, prev, call, ret, runs, procs, current_simulated_mode, switches, mcp>>
\* the state of the file tools, and the state of the tools that touch no file
fileVars == <<fs, prev, call, ret, runs, procs>>
agentVars == <<current_simulated_mode, switches, mcp>>

(***************************************************************************)
(* Bounds of the model.                                                    *)
(***************************************************************************)
\* most lines of the file the model starts from
MaxLines == 3
\* most calls of a tool in one behaviour (the first call and its repeats)
MaxRuns == 2
\* most calls of switch_mode in one behaviour
MaxSwitches == 3
\* most calls of access_mcp_resource in one behaviour
MaxMcpCalls == 2

(***************************************************************************)
(* Characters and text helpers.                                            *)
(***************************************************************************)
NL == "\n"
BS == "\\"

Max(a, b) == IF a >= b THEN a ELSE b
Min(a, b) == IF a <= b THEN a ELSE b

\* Optional[int]: None is the empty set, a value n is {n}
None == {}
Some(n) == {n}
Val(o) == CHOOSE n \in o : TRUE

\* Op(x) with the argument x evaluated once, before the call, as Python
\* evaluates the arguments of a call
Once(Op(_), x) == CHOOSE r \in {Op(v) : v \in {x}} : TRUE

\* s[i:] with a 1-based i
Drop(s, i) == SubSeq(s, i, Len(s))

\* the position of the first NL in s, or 0
FirstNL(s) ==
    IF \E i \in 1..Len(s) : s[i] = NL
    THEN CHOOSE i \in 1..Len(s) : s[i] = NL /\ \A j \in 1..(i-1) : s[j] # NL
    ELSE 0

\* str.split('\n'): always at least one piece, the pieces hold no NL
RECURSIVE Split(_)
Split(s) ==
    LET i == FirstNL(s)
    IN  IF i = 0 THEN <<s>>
        ELSE <<SubSeq(s, 1, i - 1)>> \o Split(Drop(s, i + 1))

\* '\n'.join(lines)
RECURSIVE Join(_)
Join(lines) ==
    IF Len(lines) = 0 THEN <<>>
    ELSE IF Len(lines) = 1 THEN lines[1]
    ELSE lines[1] \o <<NL>> \o Join(Tail(lines))

\* ''.join(lines)
RECURSIVE Concat(_)
Concat(lines) ==
    IF Len(lines) = 0 THEN <<>> ELSE lines[1] \o Concat(Tail(lines))

\* str.splitlines(keepends=True), and iterating an open text file: every
\* line keeps its NL, the last one has none when the text does not end in NL
RECURSIVE SplitLinesKeep(_)
SplitLinesKeep(s) ==
    LET i == FirstNL(s)
    IN  IF Len(s) = 0 THEN <<>>
        ELSE IF i = 0 THEN <<s>>
        ELSE <<SubSeq(s, 1, i)>> \o SplitLinesKeep(Drop(s, i + 1))

\* str.endswith('\n')
EndsWithNL(s) == Len(s) > 0 /\ s[Len(s)] = NL

(***************************************************************************)
(* The filesystem: the one path the tools are called on.                   *)
(*   kind "absent"      no file at the path                                *)
(*   kind "file"        a UTF-8 text file with the given content           *)
(*   kind "undecodable" a file whose bytes are not UTF-8: reading it raises*)
(*   writable           whether open(path, 'w') succeeds                   *)
(***************************************************************************)
File(c, w) == [kind |-> "file", content |-> c, writable |-> w]
Absent(w) == [kind |-> "absent", content |-> <<>>, writable |-> w]
Undecodable(w) == [kind |-> "undecodable", content |-> <<>>, writable |-> w]

\* what a tool call gives back: a returned message, or a raised exception
Returned(m) == [kind |-> "returned", msg |-> m, payload |-> <<>>]
Raised(e) == [kind |-> "raised", msg |-> e, payload |-> <<>>]
NoRet == [kind |-> "none", msg |-> "", payload |-> <<>>]

\* the outcome of a tool: the filesystem after it, and what it gave back
Outcome(f, r) == [fs |-> f, ret |-> r]

(***************************************************************************)
(* insert_content                                                          *)
(***************************************************************************)
InsertInvalidLineMsg == "Error: Invalid line number. Line must be a non-negative integer (1-based for insertion)."
InsertReadErrorMsg == "Error: Could not read file"
InsertNoFileMsg == "Error: Cannot insert content at line into a non-existent file."
InsertNoOpMsg == "No changes needed for file. Content already matches."
InsertWriteErrorMsg == "Error: Could not write to file"
InsertSuccessMsg == "Content successfully inserted into file"

\* sorted(insert_specs, key=index, reverse=True): stable, largest index first
RECURSIVE SortSpecsDesc(_)
SortSpecsDesc(specs) ==
    IF Len(specs) = 0 THEN <<>>
    ELSE LET m == CHOOSE i \in 1..Len(specs) :
                    /\ \A j \in 1..Len(specs) : specs[j].index <= specs[i].index
                    /\ \A j \in 1..(i-1) : specs[j].index < specs[i].index
             rest == SubSeq(specs, 1, m - 1) \o Drop(specs, m + 1)
         IN  <<specs[m]>> \o SortSpecsDesc(rest)

\* a pass that puts the elements in the place of the line at index:
\* updated_lines[index:index + 1] = elements
InsertOneOverLine(lines, spec) ==
    LET index == IF spec.index < 0 THEN Max(0, Len(lines) + spec.index + 1)
                 ELSE IF spec.index > Len(lines) THEN Len(lines)
                 ELSE spec.index
    IN  SubSeq(lines, 1, index) \o spec.elements \o Drop(lines, index + 2)

\* one pass of the loop of insert_groups_mock: updated_lines[index:index] = elements
InsertOne(lines, spec) ==
    LET index == IF spec.index < 0 THEN Max(0, Len(lines) + spec.index + 1)
                 ELSE IF spec.index > Len(lines) THEN Len(lines)
                 ELSE spec.index
    IN  SubSeq(lines, 1, index) \o spec.elements \o Drop(lines, index + 1)

RECURSIVE InsertAll(_, _)
InsertAll(lines, sorted) ==
    IF Len(sorted) = 0 THEN lines
    ELSE InsertAll(InsertOne(lines, sorted[1]), Tail(sorted))

insert_groups_mock(original_lines, insert_specs) ==
    InsertAll(original_lines, SortSpecsDesc(insert_specs))

\* an insertion index that takes line as 0-based already
InsertIndexZeroBased(file_exists, lines, line) ==
    IF file_exists /\ line > Len(lines) THEN Len(lines) ELSE line

\* insert_index = max(0, line - 1), clamped to len(lines) for an existing file
InsertIndex(file_exists, lines, line) ==
    LET insert_index == Max(0, line - 1)
    IN  IF file_exists /\ insert_index > Len(lines) THEN Len(lines) ELSE insert_index

\* the trailing-newline reconciliation of insert_content_function
InsertTrailingNL(file_content, updated_content) ==
    IF EndsWithNL(file_content) /\ ~EndsWithNL(updated_content)
    THEN updated_content \o <<NL>>
    ELSE updated_content

\* whether insert_content_function skips the write
InsertIsNoOp(file_exists, file_content, updated_content) ==
    file_exists /\ updated_content = file_content

\* an insert_content_function that opens the file for writing before it
\* looks at line, so that a rejected call on a missing file leaves an empty
\* file behind
insert_content_function_opens_first(f, line, content) ==
    LET file_exists == f.kind # "absent"
        file_content == IF f.kind = "file" THEN f.content ELSE <<>>
        lines == IF file_exists THEN Split(file_content) ELSE <<>>
        insert_index == InsertIndex(file_exists, lines, line)
        updated_lines == insert_groups_mock(lines,
                            <<[index |-> insert_index, elements |-> Split(content)]>>)
        updated_content == InsertTrailingNL(file_content, Join(updated_lines))
    IN  IF line < 0 THEN Outcome(f, Returned(InsertInvalidLineMsg))
        ELSE IF f.kind = "undecodable" THEN Outcome(f, Returned(InsertReadErrorMsg))
        ELSE IF ~file_exists /\ line > 1
             THEN Outcome(IF f.writable THEN File(<<>>, TRUE) ELSE f,
                          Returned(InsertNoFileMsg))
        ELSE IF InsertIsNoOp(file_exists, file_content, updated_content)
             THEN Outcome(f, Returned(InsertNoOpMsg))
        ELSE IF ~f.writable THEN Outcome(f, Returned(InsertWriteErrorMsg))
        ELSE Outcome(File(updated_content, TRUE), Returned(InsertSuccessMsg))

insert_content_function(f, line, content) ==
    LET file_exists == f.kind # "absent"
        file_content == IF f.kind = "file" THEN f.content ELSE <<>>
        lines == IF file_exists THEN Split(file_content) ELSE <<>>
        insert_index == InsertIndex(file_exists, lines, line)
        updated_lines == insert_groups_mock(lines,
                            <<[index |-> insert_index, elements |-> Split(content)]>>)
        updated_content == InsertTrailingNL(file_content, Join(updated_lines))
    IN  IF line < 0 THEN Outcome(f, Returned(InsertInvalidLineMsg))
        ELSE IF f.kind = "undecodable" THEN Outcome(f, Returned(InsertReadErrorMsg))
        ELSE IF ~file_exists /\ line > 1 THEN Outcome(f, Returned(InsertNoFileMsg))
        ELSE IF InsertIsNoOp(file_exists, file_content, updated_content)
             THEN Outcome(f, Returned(InsertNoOpMsg))
        ELSE IF ~f.writable THEN Outcome(f, Returned(InsertWriteErrorMsg))
        ELSE Outcome(File(updated_content, TRUE), Returned(InsertSuccessMsg))

(***************************************************************************)
(* Regular expressions (Python's re), as far as the tools use them.        *)
(* A pattern is text over letters, ".", NL and the backslash; a backslash  *)
(* in a pattern is followed by a non-letter or ends the pattern (this is   *)
(* what escape_reg_exp_mock produces and what the search inputs hold).     *)
(* A compiled pattern is a sequence of atoms, each matching one character. *)
(***************************************************************************)
\* the characters escape_reg_exp_mock escapes: [.*+?^${}()|[\]\\]
RegexMeta == {".", "*", "+", "?", "^", "$", "{", "}", "(", ")", "|", "[", "]", BS}

\* re.sub(r'[.*+?^${}()|[\]\\]', r'\\\g<0>', input_string)
RECURSIVE escape_reg_exp_mock(_)
escape_reg_exp_mock(input_string) ==
    IF Len(input_string) = 0 THEN <<>>
    ELSE (IF input_string[1] \in RegexMeta
          THEN <<BS, input_string[1]>>
          ELSE <<input_string[1]>>) \o escape_reg_exp_mock(Tail(input_string))

Lit(c) == [kind |-> "lit", ch |-> c]
AnyChar == [kind |-> "any", ch |-> "."]

\* re.compile(pattern): ok = FALSE is re.error (a pattern ending in a lone
\* backslash); "." is any character but NL; backslash + c is the literal c
RECURSIVE Compile(_)
Compile(pattern) ==
    IF Len(pattern) = 0 THEN [ok |-> TRUE, atoms |-> <<>>]
    ELSE IF pattern[1] = BS
         THEN IF Len(pattern) = 1 THEN [ok |-> FALSE, atoms |-> <<>>]
              ELSE LET rest == Compile(Drop(pattern, 3))
                   IN  [ok |-> rest.ok, atoms |-> <<Lit(pattern[2])>> \o rest.atoms]
    ELSE LET rest == Compile(Tail(pattern))
         IN  [ok |-> rest.ok,
              atoms |-> <<IF pattern[1] = "." THEN AnyChar ELSE Lit(pattern[1])>> \o rest.atoms]

\* re.IGNORECASE folds case
Lower(c) == IF c = "A" THEN "a" ELSE IF c = "X" THEN "x" ELSE IF c = "B" THEN "b" ELSE c

AtomMatches(atom, c, ignore_case) ==
    IF atom.kind = "any" THEN c # NL
    ELSE IF ignore_case THEN Lower(atom.ch) = Lower(c)
    ELSE atom.ch = c

\* whether the pattern matches s at position p (1-based)
MatchesAt(atoms, ignore_case, s, p) ==
    /\ p + Len(atoms) - 1 <= Len(s)
    /\ \A k \in 1..Len(atoms) : AtomMatches(atoms[k], s[p + k - 1], ignore_case)

\* the replacement template of re.sub: a string without backslash is taken
\* as it is; otherwise \n is NL, \\ is a backslash, backslash + another
\* non-alphanumeric character stays, and backslash + digit (a group the
\* pattern does not have), backslash + another letter and a backslash at the
\* end are re.error (ok = FALSE)
TemplateLetters == {"a", "b", "x", "A", "B", "X", "q"}
TemplateDigits == {"1", "2"}
RECURSIVE ExpandTemplate(_)
ExpandTemplate(repl) ==
    IF Len(repl) = 0 THEN [ok |-> TRUE, text |-> <<>>]
    ELSE IF repl[1] = BS
         THEN IF Len(repl) = 1 THEN [ok |-> FALSE, text |-> <<>>]
              ELSE LET c == repl[2]
                       rest == ExpandTemplate(Drop(repl, 3))
                   IN  IF c \in TemplateLetters \cup TemplateDigits
                       THEN [ok |-> FALSE, text |-> <<>>]
                       ELSE [ok |-> rest.ok,
                             text |-> (IF c = "n" THEN <<NL>>
                                       ELSE IF c = BS THEN <<BS>>
                                       ELSE <<BS, c>>) \o rest.text]
    ELSE LET rest == ExpandTemplate(Tail(repl))
         IN  [ok |-> rest.ok, text |-> <<repl[1]>> \o rest.text]

\* pattern.sub(repl, s) from position p on, repl already expanded: leftmost
\* non-overlapping matches; an empty match is replaced and the scan moves on
\* by one character
RECURSIVE SubFrom(_, _, _, _, _)
SubFrom(atoms, ignore_case, text, s, p) ==
    IF p > Len(s)
    THEN IF Len(atoms) = 0 THEN text ELSE <<>>
    ELSE IF MatchesAt(atoms, ignore_case, s, p)
         THEN IF Len(atoms) = 0
              THEN text \o <<s[p]>> \o SubFrom(atoms, ignore_case, text, s, p + 1)
              ELSE text \o SubFrom(atoms, ignore_case, text, s, p + Len(atoms))
         ELSE <<s[p]>> \o SubFrom(atoms, ignore_case, text, s, p + 1)

\* search_pattern.sub(replace, s): ok = FALSE when the template is rejected
\* (re.error is raised before any search)
Sub(atoms, ignore_case, replace, s) ==
    LET t == ExpandTemplate(replace)
    IN  [ok |-> t.ok,
         text |-> IF t.ok THEN SubFrom(atoms, ignore_case, t.text, s, 1) ELSE <<>>]

(***************************************************************************)
(* search_and_replace                                                      *)
(***************************************************************************)
SRNoFileMsg == "Error: File does not exist at path"
SRReadErrorMsg == "Error: Failed to read file"
SRInvalidRegexMsg == "Error: Invalid regex pattern provided"
SRInvalidRangeMsg == "Error: Invalid line range provided. start_line is greater than end_line."
SRNoOpMsg == "No changes needed. Content already matches after search and replace."
SRWriteErrorMsg == "Error: Failed to write changes to file after search and replace"
SRSuccessMsg == "Successfully performed search and replace on file"

\* start_idx = max(0, min(start_line - 1 or 0, len(lines)))
SRStartIdx(lines, start_line) ==
    LET start_idx == IF start_line # None THEN Val(start_line) - 1 ELSE 0
    IN  Max(0, Min(start_idx, Len(lines)))

\* end_idx computed from end_line without the step to a 0-based index
SREndIdxOffByOne(lines, end_line) ==
    LET end_idx == IF end_line # None THEN Val(end_line) ELSE Len(lines) - 1
    IN  Max(-1, Min(end_idx, Len(lines) - 1))

\* end_idx = max(-1, min(end_line - 1 or len(lines) - 1, len(lines) - 1))
SREndIdx(lines, end_line) ==
    LET end_idx == IF end_line # None THEN Val(end_line) - 1 ELSE Len(lines) - 1
    IN  Max(-1, Min(end_idx, Len(lines) - 1))

\* a range test that lets a range one line short of empty through
SRRangeRejectedLoose(start_idx, end_idx, start_line, end_line) ==
    start_idx > end_idx + 1 /\ start_line # None /\ end_line # None

\* the inverted-range test of search_and_replace_function
SRRangeRejected(start_idx, end_idx, start_line, end_line) ==
    start_idx > end_idx /\ start_line # None /\ end_line # None

\* lines[a:b] of Python for 0 <= a and -1 <= b - 1 (0-based, b exclusive)
Slice(lines, a, b) == SubSeq(lines, a + 1, Min(b, Len(lines)))

\* the pattern search_and_replace_function compiles
SRPattern(search, use_regex) ==
    IF use_regex THEN Compile(search) ELSE Compile(escape_reg_exp_mock(search))

\* new_content of search_and_replace_function: [ok, text], for a range that
\* was not rejected
SRNewContent(atoms, ignore_case, replace, file_content, start_line, end_line) ==
    IF start_line # None \/ end_line # None
    THEN LET lines == SplitLinesKeep(file_content)
             start_idx == SRStartIdx(lines, start_line)
             end_idx == SREndIdx(lines, end_line)
             target_content == Concat(Slice(lines, start_idx, end_idx + 1))
             modified == Sub(atoms, ignore_case, replace, target_content)
             before_lines == Slice(lines, 0, start_idx)
             after_lines == Drop(lines, end_idx + 2)
         IN  [ok |-> modified.ok,
              text |-> Concat(before_lines) \o modified.text \o Concat(after_lines)]
    ELSE Sub(atoms, ignore_case, replace, file_content)

search_and_replace_function(f, search, replace, use_regex, ignore_case, start_line, end_line) ==
    LET file_content == f.content
        pattern == SRPattern(search, use_regex)
        lines == SplitLinesKeep(file_content)
        ranged == start_line # None \/ end_line # None
        new == SRNewContent(pattern.atoms, ignore_case, replace, file_content,
                            start_line, end_line)
    IN  IF f.kind = "absent" THEN Outcome(f, Returned(SRNoFileMsg))
        ELSE IF f.kind = "undecodable" THEN Outcome(f, Returned(SRReadErrorMsg))
        ELSE IF ~pattern.ok
             THEN IF use_regex THEN Outcome(f, Returned(SRInvalidRegexMsg))
                  ELSE Outcome(f, Raised("re.error"))
        ELSE IF ranged /\ SRRangeRejected(SRStartIdx(lines, start_line),
                                          SREndIdx(lines, end_line), start_line, end_line)
             THEN Outcome(f, Returned(SRInvalidRangeMsg))
        ELSE IF ~new.ok THEN Outcome(f, Raised("re.error"))
        ELSE IF new.text = file_content THEN Outcome(f, Returned(SRNoOpMsg))
        ELSE IF ~f.writable THEN Outcome(f, Returned(SRWriteErrorMsg))
        ELSE Outcome(File(new.text, TRUE), Returned(SRSuccessMsg))

(***************************************************************************)
(* apply_diff                                                              *)
(***************************************************************************)
DiffNoFileMsg == "Error: File does not exist at path"
DiffReadErrorMsg == "Error: Unable to read file"
DiffApplyErrorMsg == "Error: Unable to apply diff to file"
DiffWriteErrorMsg == "Error: Failed to write changes to file after applying diff"
DiffSuccessMsg == "Successfully applied changes to file"

\* whether text s holds the text old at position p
HasAt(s, old, p) ==
    /\ p + Len(old) - 1 <= Len(s)
    /\ \A k \in 1..Len(old) : s[p + k - 1] = old[k]

\* str.replace(old, new) for a non-empty old, from position p on
RECURSIVE ReplaceFrom(_, _, _, _)
ReplaceFrom(s, old, new, p) ==
    IF p > Len(s) THEN <<>>
    ELSE IF HasAt(s, old, p) THEN new \o ReplaceFrom(s, old, new, p + Len(old))
    ELSE <<s[p]>> \o ReplaceFrom(s, old, new, p + 1)

Replace(s, old, new) ==
    LET FromStart(text) == ReplaceFrom(text, old, new, 1)
    IN  Once(FromStart, s)

\* text.replace("&lt;", "<").replace("&gt;", ">").replace("&amp;", "&")
\*     .replace("&quot;", "\"").replace("&#39;", "'")
unescape_html_entities_mock(text) ==
    Replace(Replace(Replace(Replace(Replace(text,
        <<"&", "l", "t", ";">>, <<"<">>),
        <<"&", "g", "t", ";">>, <<">">>),
        <<"&", "a", "m", "p", ";">>, <<"&">>),
        <<"&", "q", "u", "o", "t", ";">>, <<"\"">>),
        <<"&", "#", "3", "9", ";">>, <<"'">>)

\* a stub that returns the result_lines it builds (the lines before
\* start_line, then the new lines) instead of the diff text alone
apply_diff_stub_splices(original_content, diff_content, start_line) ==
    LET original_lines == SplitLinesKeep(original_content)
        start_idx == Val(start_line) - 1
    IN  IF start_line = None
        THEN [success |-> FALSE, content |-> <<>>]
        ELSE IF ~(0 <= start_idx /\ start_idx <= Len(original_lines))
        THEN [success |-> FALSE, content |-> <<>>]
        ELSE [success |-> TRUE,
              content |-> Concat(SubSeq(original_lines, 1, start_idx)) \o diff_content]

\* a stub that puts the new lines in before the line at start_line and
\* keeps the lines from there on
apply_diff_stub_inserts(original_content, diff_content, start_line) ==
    LET original_lines == SplitLinesKeep(original_content)
        start_idx == Val(start_line) - 1
    IN  IF start_line = None
        THEN [success |-> FALSE, content |-> <<>>]
        ELSE IF ~(0 <= start_idx /\ start_idx <= Len(original_lines))
        THEN [success |-> FALSE, content |-> <<>>]
        ELSE [success |-> TRUE,
              content |-> Concat(SubSeq(original_lines, 1, start_idx)) \o diff_content
                            \o Concat(Drop(original_lines, start_idx + 1))]

\* DiffApplicationResult of apply_diff_stub
apply_diff_stub(original_content, diff_content, start_line) ==
    LET original_lines == SplitLinesKeep(original_content)
        start_idx == Val(start_line) - 1
    IN  IF start_line = None
        THEN [success |-> FALSE, content |-> <<>>]
        ELSE IF ~(0 <= start_idx /\ start_idx <= Len(original_lines))
        THEN [success |-> FALSE, content |-> <<>>]
        ELSE [success |-> TRUE, content |-> diff_content]

apply_diff_function(f, diff, start_line) ==
    LET processed_diff == unescape_html_entities_mock(diff)
        diff_result == apply_diff_stub(f.content, processed_diff, start_line)
    IN  IF f.kind = "absent" THEN Outcome(f, Returned(DiffNoFileMsg))
        ELSE IF f.kind = "undecodable" THEN Outcome(f, Returned(DiffReadErrorMsg))
        ELSE IF ~diff_result.success THEN Outcome(f, Returned(DiffApplyErrorMsg))
        ELSE IF ~f.writable THEN Outcome(f, Returned(DiffWriteErrorMsg))
        ELSE Outcome(File(diff_result.content, TRUE), Returned(DiffSuccessMsg))

(***************************************************************************)
(* write_to_file                                                           *)
(***************************************************************************)
WriteSuccessMsg == "Successfully wrote content to"
WriteErrorMsg == "Error writing to file"

Whitespace == {" ", NL, "\t"}

\* str.strip()
RECURSIVE LStrip(_)
LStrip(s) == IF Len(s) > 0 /\ s[1] \in Whitespace THEN LStrip(Tail(s)) ELSE s
RECURSIVE RStrip(_)
RStrip(s) ==
    IF Len(s) > 0 /\ s[Len(s)] \in Whitespace THEN RStrip(SubSeq(s, 1, Len(s) - 1)) ELSE s
Strip(s) == Once(RStrip, LStrip(s))

\* the backquote character, which a TLA+ string cannot hold
Backquote == "BACKQUOTE"
\* the code fence, three backquotes
Fence == <<Backquote, Backquote, Backquote>>
StartsWith(s, t) == HasAt(s, t, 1)
EndsWith(s, t) == Len(t) <= Len(s) /\ HasAt(s, t, Len(s) - Len(t) + 1)

\* fence removal that takes two lines for a fenced block
WriteContentTwoLines(content) ==
    LET Unfenced(stripped_content) ==
            LET lines == Split(stripped_content)
            IN  IF StartsWith(stripped_content, Fence) /\ EndsWith(stripped_content, Fence)
                   /\ Len(lines) >= 2
                THEN Join(SubSeq(lines, 2, Len(lines) - 1))
                ELSE content
    IN  Once(Unfenced, Strip(content))

\* the content write_to_file_tool_func writes: a fenced block of more than
\* two lines loses its first and last line
WriteContent(content) ==
    LET Unfenced(stripped_content) ==
            LET lines == Split(stripped_content)
            IN  IF StartsWith(stripped_content, Fence) /\ EndsWith(stripped_content, Fence)
                   /\ Len(lines) > 2
                THEN Join(SubSeq(lines, 2, Len(lines) - 1))
                ELSE content
    IN  Once(Unfenced, Strip(content))

write_to_file_tool_func(f, content) ==
    IF ~f.writable THEN Outcome(f, Returned(WriteErrorMsg))
    ELSE Outcome(File(WriteContent(content), TRUE), Returned(WriteSuccessMsg))

(***************************************************************************)
(* read_file                                                               *)
(***************************************************************************)
Digits == <<"0", "1", "2", "3", "4", "5", "6", "7", "8", "9">>
IsDigit(c) == \E d \in 1..10 : Digits[d] = c
DigitVal(c) == (CHOOSE d \in 1..10 : Digits[d] = c) - 1

\* str(n) for n >= 0, as the f-strings of read_file format line numbers
RECURSIVE IntToStr(_)
IntToStr(n) ==
    IF n < 10 THEN <<Digits[n + 1]>>
    ELSE IntToStr(n \div 10) \o <<Digits[(n % 10) + 1]>>

\* int(digits)
RECURSIVE StrToInt(_)
StrToInt(ds) ==
    IF Len(ds) = 0 THEN 0
    ELSE 10 * StrToInt(SubSeq(ds, 1, Len(ds) - 1)) + DigitVal(ds[Len(ds)])

\* the length of the longest run of digits of s that starts at position p
RECURSIVE DigitRun(_, _)
DigitRun(s, p) ==
    IF p <= Len(s) /\ IsDigit(s[p]) THEN 1 + DigitRun(s, p + 1) ELSE 0

\* re.match(r'(\d+)-(\d+)', range_str): a match at the start of the text,
\* whatever follows it
ParseRange(range_str) ==
    LET n1 == DigitRun(range_str, 1)
        n2 == DigitRun(range_str, n1 + 2)
    IN  IF n1 >= 1 /\ n1 + 1 <= Len(range_str) /\ range_str[n1 + 1] = "-" /\ n2 >= 1
        THEN [matched |-> TRUE,
              start |-> StrToInt(SubSeq(range_str, 1, n1)),
              end |-> StrToInt(SubSeq(range_str, n1 + 2, n1 + 1 + n2))]
        ELSE [matched |-> FALSE, start |-> 0, end |-> 0]

\* A path is a stem and an extension.  ThePath is the path of fs; the other
\* paths of the model are fixed: MissingPath never exists, ImagePath is an
\* existing binary file, PdfPath an existing file of a text-extractable format.
Path(stem, ext) == [stem |-> stem, ext |-> ext]
ThePath == Path("a", ".txt")
MissingPath == Path("missing", ".txt")
ImagePath == Path("img", ".png")
PdfPath == Path("doc", ".pdf")
NoPath == Path("", "")

\* what a read of bytes that are not UTF-8 gives under the latin-1 fallback
Latin1Text == <<"?">>
PdfText == <<"p", "d", "f", NL>>

\* the file at a path
Lookup(f, path) ==
    IF path = ThePath THEN f
    ELSE IF path = ImagePath THEN Undecodable(TRUE)
    ELSE IF path = PdfPath THEN File(PdfText, TRUE)
    ELSE Absent(TRUE)

binary_extensions ==
    {".exe", ".dll", ".bin", ".obj", ".pyc", ".class", ".jar", ".zip", ".tar", ".gz",
     ".bz2", ".rar", ".7z", ".iso", ".dmg", ".jpg", ".jpeg", ".png", ".gif", ".bmp",
     ".tiff", ".webp", ".mp3", ".wav", ".ogg", ".flac", ".mp4", ".avi", ".mkv", ".mov",
     ".pdf", ".docx", ".xlsx", ".pptx"}

is_binary_file(path) == path.ext \in binary_extensions

get_supported_binary_formats == {".pdf", ".docx", ".xlsx", ".pptx", ".ipynb"}

\* extract_text_from_file: UTF-8, with the latin-1 fallback
extract_text_from_file(f) == IF f.kind = "undecodable" THEN Latin1Text ELSE f.content

\* count_file_lines: 0 when the file cannot be read
count_file_lines(f) ==
    IF f.kind = "undecodable" THEN 0 ELSE Len(SplitLinesKeep(f.content))

\* read_lines: the lines i of the file with start_idx <= i <= end_idx
\* (0-based), each with its NL, joined; "" when the file cannot be read
read_lines(f, end_idx, start_idx) ==
    LET lines == SplitLinesKeep(f.content)
        picked == {i \in 0..(Len(lines) - 1) : start_idx <= i /\ i <= end_idx}
    IN  IF f.kind = "undecodable" \/ picked = {} THEN <<>>
        ELSE LET lo == CHOOSE i \in picked : \A j \in picked : i <= j
                 hi == CHOOSE i \in picked : \A j \in picked : j <= i
             IN  Concat(SubSeq(lines, lo + 1, hi + 1))

\* f"{start_line + i}: {line}" for the pieces of content.split('\n') from
\* piece i on
RECURSIVE NumberLines(_, _)
NumberLines(pieces, n) ==
    IF Len(pieces) = 0 THEN <<>>
    ELSE <<IntToStr(n) \o <<":", " ">> \o pieces[1]>> \o NumberLines(Tail(pieces), n + 1)

add_line_numbers(content, start_line) == Join(NumberLines(Split(content), start_line))

ReadParseErrorMsg == "<files><error>Failed to parse 'args' XML</error></files>"
ReadNoPathsMsg == "<files><error>No valid file paths provided.</error></files>"
ReadInvalidRangeMsg == "Invalid line range. Start/end must be positive and start <= end."
ReadInvalidLegacyRangeMsg == "Invalid legacy line range. Must be positive and start <= end."
ReadNotFoundMsg == "File not found"
ReadBinaryNotice == "Binary file. Content not extracted."
ReadExtractedNotice == "Content extracted from binary file"
ReadEmptyNotice == "File is empty."
ReadFilesMsg == "<files>"

\* "You can read a maximum of 5 files in a single request."
MaxFilesPerRequest == 5

\* one entry of file_results: error and notice are "" when the key is not
\* set; blocks are the <content> elements, in order
FileResult(path, error, notice, blocks) ==
    [path |-> path, error |-> error, notice |-> notice, blocks |-> blocks]

\* a <content lines="..."> element
Block(lines_attr, body) == [lines |-> lines_attr, body |-> body]

\* the lines attribute "s-e"
LinesAttr(s, e) == IntToStr(s) \o <<"-">> \o IntToStr(e)

\* the loop over the <line_range> elements of one <file>: the valid ranges,
\* and an error entry for each range that matched but is invalid
RECURSIVE ParseRanges(_, _)
ParseRanges(path, range_strs) ==
    IF Len(range_strs) = 0 THEN [line_ranges |-> <<>>, errors |-> <<>>]
    ELSE LET m == ParseRange(Strip(range_strs[1]))
             rest == ParseRanges(path, Tail(range_strs))
         IN  IF ~m.matched THEN rest
             ELSE IF m.start > 0 /\ m.end > 0 /\ m.start <= m.end
             THEN [line_ranges |-> <<[start |-> m.start, end |-> m.end]>> \o rest.line_ranges,
                   errors |-> rest.errors]
             ELSE [line_ranges |-> rest.line_ranges,
                   errors |-> <<FileResult(path, ReadInvalidRangeMsg, "", <<>>)>>
                                \o rest.errors]

\* the loop over the <file> elements of args: file_entries and the error
\* entries put into file_results while parsing
RECURSIVE ParseEntries(_)
ParseEntries(file_elems) ==
    IF Len(file_elems) = 0 THEN [file_entries |-> <<>>, errors |-> <<>>]
    ELSE LET e == file_elems[1]
             rest == ParseEntries(Tail(file_elems))
             r == ParseRanges(e.path, e.ranges)
         IN  IF e.path = NoPath THEN rest
             ELSE [file_entries |->
                      <<[path |-> e.path, line_ranges |-> r.line_ranges]>> \o rest.file_entries,
                   errors |-> r.errors \o rest.errors]

\* the <content> elements of the requested ranges of a text file
RECURSIVE RangeBlocks(_, _)
RangeBlocks(f, line_ranges) ==
    IF Len(line_ranges) = 0 THEN <<>>
    ELSE LET r == line_ranges[1]
             content_slice == read_lines(f, r.end - 1, r.start - 1)
         IN  <<Block(LinesAttr(r.start, r.end), add_line_numbers(content_slice, r.start))>>
               \o RangeBlocks(f, Tail(line_ranges))

\* the body of the loop over file_entries: the result of one entry
ProcessEntry(f, entry) ==
    LET file == Lookup(f, entry.path)
        total_lines == count_file_lines(file)
        content == extract_text_from_file(file)
    IN  IF file.kind = "absent" THEN FileResult(entry.path, ReadNotFoundMsg, "", <<>>)
        ELSE IF is_binary_file(entry.path)
        THEN IF entry.path.ext \notin get_supported_binary_formats
             THEN FileResult(entry.path, "", ReadBinaryNotice, <<>>)
             ELSE FileResult(entry.path, "", ReadExtractedNotice,
                             <<Block(LinesAttr(1, Len(SplitLinesKeep(content))), content)>>)
        ELSE IF Len(entry.line_ranges) > 0
        THEN FileResult(entry.path, "", "", RangeBlocks(file, entry.line_ranges))
        ELSE FileResult(entry.path, "",
                        IF total_lines = 0 THEN ReadEmptyNotice ELSE "",
                        <<Block(LinesAttr(1, total_lines), add_line_numbers(content, 1))>>)

\* a loop over file_entries that ends at the first entry with an error
RECURSIVE ProcessEntriesUntilError(_, _)
ProcessEntriesUntilError(f, file_entries) ==
    IF Len(file_entries) = 0 THEN <<>>
    ELSE IF ProcessEntry(f, file_entries[1]).error # ""
         THEN <<ProcessEntry(f, file_entries[1])>>
         ELSE <<ProcessEntry(f, file_entries[1])>>
                \o ProcessEntriesUntilError(f, Tail(file_entries))

RECURSIVE ProcessEntries(_, _)
ProcessEntries(f, file_entries) ==
    IF Len(file_entries) = 0 THEN <<>>
    ELSE <<ProcessEntry(f, file_entries[1])>> \o ProcessEntries(f, Tail(file_entries))

\* read_file_tool_func with args: xml_ok is whether args parses as XML,
\* file_elems are its <file> elements (path, ranges: the texts of its
\* <line_range> elements)
read_file_args(f, xml_ok, file_elems) ==
    LET parsed == ParseEntries(file_elems)
    IN  IF ~xml_ok THEN Outcome(f, Returned(ReadParseErrorMsg))
        ELSE IF Len(parsed.file_entries) = 0 THEN Outcome(f, Returned(ReadNoPathsMsg))
        ELSE Outcome(f, [kind |-> "returned", msg |-> ReadFilesMsg,
                         payload |-> parsed.errors \o ProcessEntries(f, parsed.file_entries)])

\* read_file_tool_func without args, with the legacy path, start_line, end_line
read_file_legacy(f, path, start_line, end_line) ==
    LET both == start_line # None /\ end_line # None
        valid == both /\ Val(start_line) > 0 /\ Val(end_line) > 0
                      /\ Val(start_line) <= Val(end_line)
        entry == [path |-> path,
                  line_ranges |-> IF valid
                                  THEN <<[start |-> Val(start_line), end |-> Val(end_line)]>>
                                  ELSE <<>>]
        errors == IF both /\ ~valid
                  THEN <<FileResult(path, ReadInvalidLegacyRangeMsg, "", <<>>)>>
                  ELSE <<>>
    IN  IF path = NoPath THEN Outcome(f, Returned(ReadNoPathsMsg))
        ELSE Outcome(f, [kind |-> "returned", msg |-> ReadFilesMsg,
                         payload |-> errors \o <<ProcessEntry(f, entry)>>])

(***************************************************************************)
(* update_todo_list                                                        *)
(***************************************************************************)
TodoSuccessMsg == "Todo list updated successfully:"

\* \s of the pattern, among the characters of the model
RegexSpace == {" ", "\t"}
\* the class [ xX\-\~] of the pattern
StatusChars == {" ", "x", "X", "-", "~"}

\* str.splitlines() of the non-blank lines, each stripped:
\* [line.strip() for line in md.splitlines() if line.strip()]
RECURSIVE StrippedLines(_)
StrippedLines(pieces) ==
    IF Len(pieces) = 0 THEN <<>>
    ELSE (IF Len(Strip(pieces[1])) > 0 THEN <<Strip(pieces[1])>> ELSE <<>>)
           \o StrippedLines(Tail(pieces))

\* str.splitlines(): the lines without their NL
RECURSIVE DropNLs(_)
DropNLs(lines) ==
    IF Len(lines) = 0 THEN <<>>
    ELSE <<IF EndsWithNL(lines[1]) THEN SubSeq(lines[1], 1, Len(lines[1]) - 1)
           ELSE lines[1]>> \o DropNLs(Tail(lines))

SplitLines(s) == DropNLs(SplitLinesKeep(s))

\* the length of the run of \s of line that starts at position p
RECURSIVE SpaceRun(_, _)
SpaceRun(line, p) ==
    IF p <= Len(line) /\ line[p] \in RegexSpace THEN 1 + SpaceRun(line, p + 1) ELSE 0

\* a match that takes no blank inside the brackets
TodoMatchNoInnerBlanks(line) ==
    LET a == SpaceRun(line, 1)
        open == a + 1
        close == open + 2
        run == SpaceRun(line, close + 1)
        m == Min(run, Len(line) - close - 1)
    IN  IF /\ close <= Len(line) /\ line[open] = "["
           /\ line[open + 1] \in StatusChars /\ line[close] = "]" /\ m >= 1
        THEN [matched |-> TRUE, group1 |-> line[open + 1],
              group2 |-> Drop(line, close + m + 1)]
        ELSE [matched |-> FALSE, group1 |-> " ", group2 |-> <<>>]

\* re.match(r"^\s*\[\s*([ xX\-\~])\s*\]\s+(.+)$", line): the line is
\*   \s{a} "[" \s{i} c \s{j} "]" \s{m} text,  c in the class, m >= 1, text
\* not empty; the greedy \s+ takes every space it can and leaves (.+) one
\* character at least.  group1 is c, group2 the text.
TodoMatch(line) ==
    LET a == SpaceRun(line, 1)
        open == a + 1
        splits == {<<i, j>> \in (0..Len(line)) \X (0..Len(line)) :
                     /\ open + i + 1 + j + 1 <= Len(line)
                     /\ line[open] = "["
                     /\ \A k \in 1..i : line[open + k] \in RegexSpace
                     /\ line[open + i + 1] \in StatusChars
                     /\ \A k \in 1..j : line[open + i + 1 + k] \in RegexSpace
                     /\ line[open + i + 1 + j + 1] = "]"}
    IN  IF splits = {} THEN [matched |-> FALSE, group1 |-> " ", group2 |-> <<>>]
        ELSE LET ij == CHOOSE x \in splits : \A y \in splits : x[1] >= y[1]
                 close == open + ij[1] + 1 + ij[2] + 1
                 run == SpaceRun(line, close + 1)
                 m == Min(run, Len(line) - close - 1)
             IN  IF m >= 1
                 THEN [matched |-> TRUE, group1 |-> line[open + ij[1] + 1],
                       group2 |-> Drop(line, close + m + 1)]
                 ELSE [matched |-> FALSE, group1 |-> " ", group2 |-> <<>>]

\* a status mapping that knows the lower-case x only
StatusOfLowerOnly(status_char) ==
    IF status_char = "x" THEN "completed"
    ELSE IF status_char \in {"-", "~"} THEN "in_progress"
    ELSE "pending"

\* the status of a status character
StatusOf(status_char) ==
    IF status_char \in {"x", "X"} THEN "completed"
    ELSE IF status_char \in {"-", "~"} THEN "in_progress"
    ELSE "pending"

\* a status text that is the same for every status
StatusTextBlank(status) == <<>>

\* the characters of a status, as content + status is hashed
StatusText(status) ==
    CASE status = "completed" -> <<"c", "o", "m", "p", "l", "e", "t", "e", "d">>
      [] status = "in_progress" -> <<"i", "n", "_", "p", "r", "o", "g", "r", "e", "s", "s">>
      [] status = "pending" -> <<"p", "e", "n", "d", "i", "n", "g">>

\* hashlib.md5(text).hexdigest(), taken as injective: the digest of a text
\* is the text, tagged
md5_hexdigest(text) == <<"md5", text>>

TodoItem(id, content, status) == [id |-> id, content |-> content, status |-> status]

RECURSIVE ParseTodoLines(_)
ParseTodoLines(lines) ==
    IF Len(lines) = 0 THEN <<>>
    ELSE LET match == TodoMatch(lines[1])
             status == StatusOf(match.group1)
             content == Strip(match.group2)
             item_id == md5_hexdigest(content \o StatusText(status))
         IN  (IF match.matched THEN <<TodoItem(item_id, content, status)>> ELSE <<>>)
               \o ParseTodoLines(Tail(lines))

parse_markdown_checklist(md) == ParseTodoLines(StrippedLines(SplitLines(md)))

normalize_status(status) ==
    IF status = "completed" THEN "completed"
    ELSE IF status = "in_progress" THEN "in_progress"
    ELSE "pending"

\* a line with nothing between the marker and the content
TodoLineTight(t) ==
    IF t.status = "completed" THEN <<"[", "x", "]">> \o t.content
    ELSE IF t.status = "in_progress" THEN <<"[", "-", "]">> \o t.content
    ELSE <<"[", " ", "]">> \o t.content

\* one line of todo_list_to_markdown
TodoLine(t) ==
    IF t.status = "completed" THEN <<"[", "x", "]", " ">> \o t.content
    ELSE IF t.status = "in_progress" THEN <<"[", "-", "]", " ">> \o t.content
    ELSE <<"[", " ", "]", " ">> \o t.content

RECURSIVE TodoLines(_)
TodoLines(todos) ==
    IF Len(todos) = 0 THEN <<>> ELSE <<TodoLine(todos[1])>> \o TodoLines(Tail(todos))

todo_list_to_markdown(todos) == Join(TodoLines(todos))

RECURSIVE NormalizeTodos(_)
NormalizeTodos(todos) ==
    IF Len(todos) = 0 THEN <<>>
    ELSE <<TodoItem(todos[1].id, todos[1].content, normalize_status(todos[1].status))>>
           \o NormalizeTodos(Tail(todos))

\* update_todo_list_tool_py: the payload holds the normalized items and the
\* markdown that follows the success line
update_todo_list_tool_py(f, todos) ==
    LET normalized_todos == NormalizeTodos(parse_markdown_checklist(todos))
        updated_md == todo_list_to_markdown(normalized_todos)
    IN  Outcome(f, [kind |-> "returned", msg |-> TodoSuccessMsg,
                    payload |-> [items |-> normalized_todos, markdown |-> updated_md]])

(***************************************************************************)
(* list_files                                                              *)
(***************************************************************************)
ListHeaderMsg == "Files/directories in"
ListLimit == 200

\* the paths that exist in the working directory
ExistingPaths(f) ==
    (IF f.kind # "absent" THEN {ThePath} ELSE {}) \cup {ImagePath, PdfPath}

\* list_files_mock: exists is FALSE when nothing is at the path; items are
\* the entries found.  Path.iterdir() of a path that is no directory raises
\* (ok = FALSE); os.walk of such a path yields nothing.
list_files_mock(f, path, recursive) ==
    IF path = NoPath
    THEN [ok |-> TRUE, items |-> ExistingPaths(f)]
    ELSE IF Lookup(f, path).kind = "absent" THEN [ok |-> TRUE, items |-> {}]
    ELSE IF recursive THEN [ok |-> TRUE, items |-> {}]
    ELSE [ok |-> FALSE, items |-> {}]

\* list_files_function: path NoPath is the omitted path, the working directory
list_files_function(f, path, recursive) ==
    LET listed == list_files_mock(f, path, recursive)
    IN  IF ~listed.ok THEN Outcome(f, Raised("NotADirectoryError"))
        ELSE Outcome(f, [kind |-> "returned", msg |-> ListHeaderMsg,
                         payload |-> [items |-> listed.items,
                                      did_hit_limit |-> Cardinality(listed.items) > ListLimit]])

(***************************************************************************)
(* switch_mode                                                             *)
(***************************************************************************)
DEFAULT_MODE_SLUG_STUB == "default"

MODES_STUB ==
    [slug \in {"default", "code_editing", "documentation", "debugging", "planning"} |->
        [name |-> CASE slug = "default" -> "Default"
                    [] slug = "code_editing" -> "Code Editing"
                    [] slug = "documentation" -> "Documentation"
                    [] slug = "debugging" -> "Debugging"
                    [] slug = "planning" -> "Planning",
         slug |-> slug]]

\* MODES_STUB.get(mode_slug)
get_mode_by_slug_stub(mode_slug) ==
    IF mode_slug \in DOMAIN MODES_STUB THEN Some(MODES_STUB[mode_slug]) ELSE None

\* a handler that reports the switch and leaves the mode as it is
handle_mode_switch_stub_print_only(current, mode_slug) == current

\* handle_mode_switch_stub: the value of _current_simulated_mode after it
handle_mode_switch_stub(current, mode_slug) ==
    IF mode_slug \in DOMAIN MODES_STUB THEN mode_slug ELSE current

\* the three messages of switch_mode_function, with the values they quote
SwitchInvalidMsg(mode_slug) ==
    [msg |-> "Error: Invalid mode", mode |-> mode_slug, from |-> "", reason |-> ""]
SwitchAlreadyMsg(name) ==
    [msg |-> "Already in mode. No switch needed.", mode |-> name, from |-> "", reason |-> ""]
SwitchSuccessMsg(from, to, reason) ==
    [msg |-> "Successfully switched", mode |-> to, from |-> from, reason |-> reason]

\* switch_mode_function called while _current_simulated_mode is current:
\* the mode it leaves and the message it returns
switch_mode_function(current, mode_slug, reason) ==
    LET target_mode == get_mode_by_slug_stub(mode_slug)
        current_mode_slug == current
        current_mode_name ==
            IF current_mode_slug \in DOMAIN MODES_STUB
            THEN MODES_STUB[current_mode_slug].name ELSE current_mode_slug
    IN  IF target_mode = None
        THEN [mode |-> current, ret |-> SwitchInvalidMsg(mode_slug)]
        ELSE IF current_mode_slug = mode_slug
        THEN [mode |-> current, ret |-> SwitchAlreadyMsg(Val(target_mode).name)]
        ELSE [mode |-> handle_mode_switch_stub(current, mode_slug),
              ret |-> SwitchSuccessMsg(current_mode_name, Val(target_mode).name, reason)]

(***************************************************************************)
(* access_mcp_resource                                                     *)
(* A text is a sequence of the pieces an f-string puts together; an item   *)
(* of "contents" holds each of its keys as an Optional, None for a key     *)
(* that is not there.                                                      *)
(***************************************************************************)
McpItem(type, text, mimeType, blob) ==
    [type |-> type, text |-> text, mimeType |-> mimeType, blob |-> blob]

\* {"text": ...}: an item with the key text alone
TextItem(text) == McpItem(None, Some(text), None, None)

ReadmeText == <<"# My Repository\n\nThis is a sample README file.">>
IssueText == <<"Description for PROJ-123: Implement feature X and fix bug Y.">>
dummy_base64_image ==
    "iVBORw0KGgoAAAANSUhEUgAAAAEAAAABCAQAAAC1HAwCAAAAC0lEQVR42mNkYAAAAAYAAjCB0C8AAAAASUVORK5CYII="

read_mcp_resource_stub(server_name, uri) ==
    IF server_name = "GitHub_MCP"
    THEN IF uri = "/repos/my_repo/README.md"
         THEN [contents |-> <<TextItem(ReadmeText)>>, isError |-> FALSE]
         ELSE IF uri = "/users/octocat/avatar.png"
         THEN [contents |-> <<McpItem(None, None, Some("image/png"), Some(dummy_base64_image))>>,
               isError |-> FALSE]
         ELSE [contents |-> <<TextItem(<<"Resource not found for GitHub_MCP at URI: ", uri>>)>>,
               isError |-> TRUE]
    ELSE IF server_name = "Jira_MCP"
    THEN IF uri = "/issues/PROJ-123/description"
         THEN [contents |-> <<TextItem(IssueText)>>, isError |-> FALSE]
         ELSE [contents |-> <<TextItem(<<"Resource not found for Jira_MCP at URI: ", uri>>)>>,
               isError |-> TRUE]
    ELSE [contents |-> <<TextItem(<<"Unknown MCP server: ", server_name>>)>>, isError |-> TRUE]

\* the loop over the items: extracted_texts takes the text of an item whose
\* type is "text", extracted_images the blob of any other item whose
\* mimeType starts with "image" (the one such mimeType here is "image/png"),
\* made a data URI (the blob of the stub does not start with "data:")
RECURSIVE ExtractedTexts(_)
ExtractedTexts(contents) ==
    IF Len(contents) = 0 THEN <<>>
    ELSE (IF contents[1].type = Some("text") /\ contents[1].text # None
          THEN <<Val(contents[1].text)>> ELSE <<>>)
           \o ExtractedTexts(Tail(contents))

RECURSIVE ExtractedImages(_)
ExtractedImages(contents) ==
    IF Len(contents) = 0 THEN <<>>
    ELSE (IF /\ ~(contents[1].type = Some("text") /\ contents[1].text # None)
             /\ contents[1].mimeType = Some("image/png") /\ contents[1].blob # None
          THEN <<<<"data:", Val(contents[1].mimeType), ";base64,", Val(contents[1].blob)>>>>
          ELSE <<>>)
           \o ExtractedImages(Tail(contents))

\* "\n\n".join(filter(None, extracted_texts)) or "(Empty response)": the
\* texts joined, as the sequence of the texts
EmptyResponse == <<"(Empty response)">>
NonEmptyText(t) == Len(t) > 0
ResultPretty(extracted_texts) ==
    IF SelectSeq(extracted_texts, NonEmptyText) = <<>> THEN <<EmptyResponse>>
    ELSE SelectSeq(extracted_texts, NonEmptyText)

\* the two strings access_mcp_resource_function returns, with what they quote
McpErrorMsg(uri, server_name, details) ==
    [msg |-> "Error: Failed to access MCP resource", uri |-> uri,
     server_name |-> server_name, texts |-> details, images |-> 0]
format_tool_result_mock(content, images) ==
    [msg |-> "Result:", uri |-> "", server_name |-> "", texts |-> content,
     images |-> Len(images)]

access_mcp_resource_function(server_name, uri) ==
    LET resource_result == read_mcp_resource_stub(server_name, uri)
        extracted_texts == ExtractedTexts(resource_result.contents)
        extracted_images == ExtractedImages(resource_result.contents)
        resource_result_pretty == ResultPretty(extracted_texts)
    IN  IF resource_result.isError
        THEN McpErrorMsg(uri, server_name, resource_result_pretty)
        ELSE format_tool_result_mock(resource_result_pretty, extracted_images)

(***************************************************************************)
(* The calls.  A call record names the tool and its arguments; the fields  *)
(* a tool does not take keep their defaults.                               *)
(***************************************************************************)
NoCall ==
    [tool |-> "none", line |-> 0, content |-> <<>>, search |-> <<>>, replace |-> <<>>,
     use_regex |-> FALSE, ignore_case |-> FALSE, start_line |-> None, end_line |-> None,
     diff |-> <<>>, xml_ok |-> TRUE, file_elems |-> <<>>, path |-> NoPath,
     recursive |-> FALSE, todos |-> <<>>]

InsertCall(line, content) ==
    [NoCall EXCEPT !.tool = "insert_content", !.line = line, !.content = content]

SRCall(search, replace, use_regex, ignore_case, start_line, end_line) ==
    [NoCall EXCEPT !.tool = "search_and_replace", !.search = search, !.replace = replace,
                   !.use_regex = use_regex, !.ignore_case = ignore_case,
                   !.start_line = start_line, !.end_line = end_line]

DiffCall(diff, start_line) ==
    [NoCall EXCEPT !.tool = "apply_diff", !.diff = diff, !.start_line = start_line]

WriteCall(content) ==
    [NoCall EXCEPT !.tool = "write_to_file", !.content = content]

ReadCall(xml_ok, file_elems) ==
    [NoCall EXCEPT !.tool = "read_file", !.xml_ok = xml_ok, !.file_elems = file_elems]

ReadLegacyCall(path, start_line, end_line) ==
    [NoCall EXCEPT !.tool = "read_file_legacy", !.path = path,
                   !.start_line = start_line, !.end_line = end_line]

TodoCall(todos) == [NoCall EXCEPT !.tool = "update_todo_list", !.todos = todos]

ListCall(path, recursive) ==
    [NoCall EXCEPT !.tool = "list_files", !.path = path, !.recursive = recursive]

\* the tool of call c run on filesystem f
Apply(c, f) ==
    CASE c.tool = "insert_content" -> insert_content_function(f, c.line, c.content)
      [] c.tool = "search_and_replace" ->
            search_and_replace_function(f, c.search, c.replace, c.use_regex,
                                        c.ignore_case, c.start_line, c.end_line)
      [] c.tool = "apply_diff" -> apply_diff_function(f, c.diff, c.start_line)
      [] c.tool = "write_to_file" -> write_to_file_tool_func(f, c.content)
      [] c.tool = "read_file" -> read_file_args(f, c.xml_ok, c.file_elems)
      [] c.tool = "read_file_legacy" ->
            read_file_legacy(f, c.path, c.start_line, c.end_line)
      [] c.tool = "update_todo_list" -> update_todo_list_tool_py(f, c.todos)
      [] c.tool = "list_files" -> list_files_function(f, c.path, c.recursive)

(***************************************************************************)
(* Inputs.                                                                 *)
(***************************************************************************)
\* the texts of the lines of the files the model starts from
LineTexts == {<<>>, <<"a", "x">>}

LinesUpTo(n) == UNION {[1..k -> LineTexts] : k \in 0..n}

\* every text of at most MaxLines such lines, with and without a final NL
FileContents ==
    {Join(ls) : ls \in LinesUpTo(MaxLines)}
      \cup {Join(ls) \o <<NL>> : ls \in LinesUpTo(MaxLines)}

InitFs ==
    {File(c, w) : c \in FileContents, w \in BOOLEAN}
      \cup {Absent(w) : w \in BOOLEAN} \cup {Undecodable(w) : w \in BOOLEAN}

LineNumbers == -1..(MaxLines + 1)
OptLineNumbers == {None} \cup {Some(n) : n \in LineNumbers}

InsertContents ==
    {<<>>, <<"N">>, <<"N", NL>>, <<"N", NL, "M">>, <<"N", NL, "M", NL>>}

Searches == {<<"a">>, <<"a", ".">>, <<"A">>, <<BS>>, <<>>}
Replaces == {<<>>, <<"a", "a">>, <<BS>>, <<BS, "n">>, <<BS, BS>>}
RangedSearches == {<<"a">>, <<NL>>}
RangedReplaces == {<<"b">>, <<>>}

\* a diff in the format the tool description asks for: one SEARCH/REPLACE
\* block that would turn a line "ax" into "Z"
SearchReplaceBlock ==
    <<"<", "<", "<", "<", "<", "<", "<", " ", "S", "E", "A", "R", "C", "H", NL,
      "a", "x", NL,
      "=", "=", "=", "=", "=", "=", "=", NL,
      "Z", NL,
      ">", ">", ">", ">", ">", ">", ">", " ", "R", "E", "P", "L", "A", "C", "E">>

Diffs ==
    {<<>>, <<"a", "x", NL>>, <<"a", "x", NL, "Z">>, <<"&", "l", "t", ";">>,
     <<"&", "a", "m", "p", ";", "l", "t", ";">>, SearchReplaceBlock}

WriteContents ==
    {<<>>, <<"W">>, <<"a", "x", NL>>, Fence \o <<NL, "W", NL>> \o Fence,
     <<" ">> \o Fence \o <<"p", "y", NL, "W", NL, "V", NL>> \o Fence \o <<NL>>,
     Fence \o <<"W">> \o Fence, Fence \o <<NL>> \o Fence}

\* the texts of <line_range> elements: "s-e", and one that is no range
RangeTexts ==
    {LinesAttr(s, e) : s \in 0..MaxLines, e \in 0..MaxLines} \cup {<<"x">>}

\* the <line_range> elements of one <file>: none, one or two
RangeLists ==
    {<<>>} \cup {<<r>> : r \in RangeTexts} \cup {<<r, q>> : r \in RangeTexts, q \in RangeTexts}

FileElem(path, ranges) == [path |-> path, ranges |-> ranges]

\* the <file> elements of a request for several paths: one or two of them
BatchElems ==
    {FileElem(p, r) : p \in {ThePath, MissingPath, ImagePath, PdfPath, NoPath},
                      r \in {<<>>, <<LinesAttr(1, 1)>>}}
BatchLists == {<<e>> : e \in BatchElems} \cup {<<e, d>> : e \in BatchElems, d \in BatchElems}

\* most <file> elements of one request
MaxBatchFiles == 6

\* requests for three and more paths: the file, with at most one missing path
\* among them
LongBatchLists ==
    {[k \in 1..n |-> FileElem(IF k = miss THEN MissingPath ELSE ThePath, <<>>)] :
        n \in 3..MaxBatchFiles, miss \in 0..MaxBatchFiles}

\* the lines of todo inputs
TodoInputLines ==
    {<<"[", "x", "]", " ", "A">>, <<"[", "X", "]", " ", "A">>,
     <<"[", "-", "]", " ", "B">>, <<"[", "~", "]", " ", "B">>,
     <<"[", " ", "]", " ", "C">>, <<"[", " ", "]", " ", "A">>,
     <<"[", " ", "]", " ", "A", " ", "B">>,
     <<" ", "[", " ", "]", " ", " ", "C", " ">>,
     <<"[", "x", "]">>, <<"[", "x", "]", "A">>, <<"A">>, <<>>,
     <<"[", " ", "x", " ", "]", " ", "D">>, <<"[", "]", " ", "E">>,
     <<"[", "y", "]", " ", "A">>}

\* most lines of a todo input
MaxTodoLines == 3

\* the slugs switch_mode is called with: the five of the stub and "code", the
\* example of the tool description, which the stub does not know
ModeSlugs == DOMAIN MODES_STUB \cup {"code"}
\* the reasons: "" stands for an omitted reason as well (both are falsy)
Reasons == {"", "why"}

\* the servers and URIs access_mcp_resource is called with: those the stub
\* knows, and others
ServerNames == {"GitHub_MCP", "Jira_MCP", "Slack_MCP", ""}
Uris ==
    {"/repos/my_repo/README.md", "/users/octocat/avatar.png",
     "/issues/PROJ-123/description", "/repos/my_repo/LICENSE", ""}

TodoInputs ==
    {Join(ls) : ls \in UNION {[1..k -> TodoInputLines] : k \in 0..MaxTodoLines}}

(***************************************************************************)
(* The state machine.                                                      *)
(*   fs    the filesystem                                                  *)
(*   prev  the filesystem before the last call                             *)
(*   call  the last call                                                   *)
(*   ret   what the last call gave back                                    *)
(*   runs  the number of calls made                                        *)
(*   procs the two callers that run a tool at the same time: where each is *)
(*         in its call (pc), the call, the file it read, what it got back  *)
(*   current_simulated_mode  the global of switch_mode.py                   *)
(*   switches  the calls of switch_mode made so far, each with the mode    *)
(*         before it and what it returned                                  *)
(*   mcp   the calls of access_mcp_resource made so far, each with what it *)
(*         returned                                                        *)
(***************************************************************************)
\* a caller that has not called yet
IdleProc == [pc |-> "idle", call |-> NoCall, read |-> Absent(TRUE), ret |-> NoRet]

Init ==
    /\ fs \in InitFs
    /\ prev = fs
    /\ call = NoCall
    /\ ret = NoRet
    /\ runs = 0
    /\ procs = [p \in 1..2 |-> IdleProc]
    /\ current_simulated_mode = DEFAULT_MODE_SLUG_STUB
    /\ switches = <<>>
    /\ mcp = <<>>

\* call c has run to completion on the filesystem, with outcome o
DoCall(c, o) ==
    /\ fs' = o.fs
    /\ ret' = o.ret
    /\ prev' = fs
    /\ call' = c
    /\ runs' = runs + 1
    /\ UNCHANGED <<procs, agentVars>>

InsertContent ==
    /\ runs = 0
    /\ \E line \in LineNumbers, content \in InsertContents :
          \E o \in {insert_content_function(fs, line, content)} :
             DoCall(InsertCall(line, content), o)

SearchAndReplace ==
    /\ runs = 0
    /\ \E search \in Searches, replace \in Replaces,
          use_regex \in BOOLEAN, ignore_case \in BOOLEAN :
          \E o \in {search_and_replace_function(fs, search, replace, use_regex,
                                                ignore_case, None, None)} :
             DoCall(SRCall(search, replace, use_regex, ignore_case, None, None), o)

SearchAndReplaceRanged ==
    /\ runs = 0
    /\ \E search \in RangedSearches, replace \in RangedReplaces,
          start_line \in OptLineNumbers, end_line \in OptLineNumbers :
          /\ start_line # None \/ end_line # None
          /\ \E o \in {search_and_replace_function(fs, search, replace, FALSE, FALSE,
                                                   start_line, end_line)} :
                DoCall(SRCall(search, replace, FALSE, FALSE, start_line, end_line), o)

ApplyDiff ==
    /\ runs = 0
    /\ \E diff \in Diffs, start_line \in OptLineNumbers :
          \E o \in {apply_diff_function(fs, diff, start_line)} :
             DoCall(DiffCall(diff, start_line), o)

WriteToFile ==
    /\ runs = 0
    /\ \E content \in WriteContents :
          \E o \in {write_to_file_tool_func(fs, content)} : DoCall(WriteCall(content), o)

\* the same call once more, on the filesystem the previous run left
RepeatCall ==
    /\ runs >= 1
    /\ runs < MaxRuns
    /\ call.tool \in {"insert_content", "search_and_replace", "apply_diff", "write_to_file"}
    /\ \E o \in {Apply(call, fs)} : DoCall(call, o)

ReadFile ==
    /\ runs = 0
    /\ \E ranges \in RangeLists :
          \E file_elems \in {<<FileElem(ThePath, ranges)>>} :
             \E o \in {read_file_args(fs, TRUE, file_elems)} :
                DoCall(ReadCall(TRUE, file_elems), o)

ReadFileBatch ==
    /\ runs = 0
    /\ \E xml_ok \in BOOLEAN, file_elems \in BatchLists :
          \E o \in {read_file_args(fs, xml_ok, file_elems)} :
             DoCall(ReadCall(xml_ok, file_elems), o)

ReadFileMany ==
    /\ runs = 0
    /\ \E file_elems \in LongBatchLists :
          \E o \in {read_file_args(fs, TRUE, file_elems)} :
             DoCall(ReadCall(TRUE, file_elems), o)

ReadFileLegacy ==
    /\ runs = 0
    /\ \E path \in {ThePath, MissingPath, NoPath},
          start_line \in OptLineNumbers, end_line \in OptLineNumbers :
          \E o \in {read_file_legacy(fs, path, start_line, end_line)} :
             DoCall(ReadLegacyCall(path, start_line, end_line), o)

UpdateTodoList ==
    /\ runs = 0
    /\ \E todos \in TodoInputs :
          \E o \in {update_todo_list_tool_py(fs, todos)} : DoCall(TodoCall(todos), o)

ListFiles ==
    /\ runs = 0
    /\ \E path \in {NoPath, ThePath, MissingPath}, recursive \in BOOLEAN :
          \E o \in {list_files_function(fs, path, recursive)} :
             DoCall(ListCall(path, recursive), o)

NextInsert == InsertContent \/ RepeatCall
SpecInsert == Init /\ [][NextInsert]_vars

NextSR == SearchAndReplace \/ SearchAndReplaceRanged \/ RepeatCall
SpecSR == Init /\ [][NextSR]_vars

NextMutate ==
    \/ InsertContent \/ SearchAndReplace \/ SearchAndReplaceRanged
    \/ ApplyDiff \/ WriteToFile \/ RepeatCall
SpecMutate == Init /\ [][NextMutate]_vars

NextRead == ReadFile \/ ReadFileBatch \/ ReadFileMany \/ ReadFileLegacy
SpecRead == Init /\ [][NextRead]_vars

\* update_todo_list does not touch the filesystem: one filesystem is enough
InitTodo == Init /\ fs = Absent(TRUE)
\* update_todo_list called with the markdown its previous call returned
FeedBackTodoList ==
    /\ runs >= 1
    /\ runs < MaxRuns
    /\ call.tool = "update_todo_list"
    /\ \E todos \in {ret.payload.markdown} :
          \E o \in {update_todo_list_tool_py(fs, todos)} : DoCall(TodoCall(todos), o)

NextTodo == UpdateTodoList \/ FeedBackTodoList
SpecTodo == InitTodo /\ [][NextTodo]_vars

\* the calls two callers make at the same time
RaceCalls ==
    {InsertCall(line, content) : line \in {1, MaxLines + 1}, content \in {<<"N">>, <<"M">>}}
      \cup {SRCall(<<"a">>, <<"b">>, FALSE, FALSE, None, None)}

\* the first half of a call of caller p: the existence test and the read of
\* the file, with no lock taken
RaceRead(p) ==
    /\ procs[p].pc = "idle"
    /\ \E c \in RaceCalls :
          procs' = [procs EXCEPT ![p] = [pc |-> "read", call |-> c, read |-> fs, ret |-> NoRet]]
    /\ UNCHANGED <<fs, prev, call, ret, runs, agentVars>>

\* the file content as it is when the second half of the call begins
RaceFileContentNow(p) == fs

\* the file content the second half of the call of caller p works on: the
\* one it read
RaceFileContent(p) == procs[p].read

\* whether an outcome is that of a call that wrote the file
Wrote(o) ==
    o.ret.msg \in {InsertSuccessMsg, SRSuccessMsg, DiffSuccessMsg, WriteSuccessMsg}

\* the second half of a call of caller p: the new content is computed from
\* what was read and, unless the call ends early, the file is written
RaceWrite(p) ==
    /\ procs[p].pc = "read"
    /\ \E o \in {Apply(procs[p].call, RaceFileContent(p))} :
          /\ fs' = IF Wrote(o) THEN o.fs ELSE fs
          /\ procs' = [procs EXCEPT ![p].pc = "done", ![p].ret = o.ret]
    /\ UNCHANGED <<prev, call, ret, runs, agentVars>>

NextRace == \E p \in 1..2 : RaceRead(p) \/ RaceWrite(p)
SpecRace == Init /\ [][NextRace]_vars

\* the tools that touch no file start from one filesystem
InitAgent == Init /\ fs = Absent(TRUE)

SwitchMode ==
    /\ Len(switches) < MaxSwitches
    /\ \E mode_slug \in ModeSlugs, reason \in Reasons :
          \E o \in {switch_mode_function(current_simulated_mode, mode_slug, reason)} :
             /\ current_simulated_mode' = o.mode
             /\ switches' = Append(switches,
                               [mode_slug |-> mode_slug, reason |-> reason,
                                before |-> current_simulated_mode, ret |-> o.ret])
    /\ UNCHANGED <<fileVars, mcp>>

NextSwitch == SwitchMode
SpecSwitch == InitAgent /\ [][NextSwitch]_vars

AccessMcpResource ==
    /\ Len(mcp) < MaxMcpCalls
    /\ \E server_name \in ServerNames, uri \in Uris :
          \E o \in {access_mcp_resource_function(server_name, uri)} :
             mcp' = Append(mcp, [server_name |-> server_name, uri |-> uri, ret |-> o])
    /\ UNCHANGED <<fileVars, current_simulated_mode, switches>>

NextMcp == AccessMcpResource
SpecMcp == InitAgent /\ [][NextMcp]_vars

NextTools ==
    \/ InsertContent \/ SearchAndReplace \/ SearchAndReplaceRanged \/ ApplyDiff
    \/ WriteToFile \/ ReadFileLegacy \/ ReadFileBatch \/ ListFiles \/ RepeatCall
SpecTools == Init /\ [][NextTools]_vars

(***************************************************************************)
(* Properties.                                                             *)
(***************************************************************************)
IsPrefix(p, s) == Len(p) <= Len(s) /\ SubSeq(s, 1, Len(p)) = p
IsSuffix(p, s) == Len(p) <= Len(s) /\ SubSeq(s, Len(s) - Len(p) + 1, Len(s)) = p

\* the lines of a text, each with its NL, and their number
LinesOf(text) == SplitLinesKeep(text)
LineCount(text) == Len(LinesOf(text))

\* the text of lines a..b (1-based, inclusive) of a text
LinesText(text, a, b) == Concat(SubSeq(LinesOf(text), a, b))

MutatingTools == {"insert_content", "search_and_replace", "apply_diff", "write_to_file"}
RegionMutators == {"insert_content", "search_and_replace", "apply_diff"}
NoOpMsgs == {InsertNoOpMsg, SRNoOpMsg}
SuccessMsgs == {InsertSuccessMsg, SRSuccessMsg, DiffSuccessMsg, WriteSuccessMsg}
ErrorMsgs ==
    {InsertInvalidLineMsg, InsertReadErrorMsg, InsertNoFileMsg, InsertWriteErrorMsg,
     SRNoFileMsg, SRReadErrorMsg, SRInvalidRegexMsg, SRInvalidRangeMsg, SRWriteErrorMsg,
     DiffNoFileMsg, DiffReadErrorMsg, DiffApplyErrorMsg, DiffWriteErrorMsg, WriteErrorMsg}

\* ---- C1 ----
\* line i of a text without its NL, annotated "i: "
NumberedLine(text, i) ==
    LET l == LinesOf(text)[i]
    IN  IntToStr(i) \o <<":", " ">>
          \o (IF EndsWithNL(l) THEN SubSeq(l, 1, Len(l) - 1) ELSE l)

\* the annotated lines s..e of a text
NumberedRange(text, s, e) == Join([k \in 1..(e - s + 1) |-> NumberedLine(text, s + k - 1)])

\* the request of the last call: the ranges asked of ThePath alone
RequestedRanges == call.file_elems[1].ranges

\* range k of the request is "s-e"
RangeIs(k, s, e) == RequestedRanges[k] = LinesAttr(s, e)

\* every requested range lies inside a file of n lines
RangesInside(n) ==
    \A k \in 1..Len(RequestedRanges) :
        \E s \in 1..n, e \in 1..n : s <= e /\ RangeIs(k, s, e)

ReadOfRanges ==
    /\ call.tool = "read_file"
    /\ call.xml_ok
    /\ Len(call.file_elems) = 1
    /\ call.file_elems[1].path = ThePath
    /\ Len(RequestedRanges) >= 1
    /\ prev.kind = "file"
    /\ RangesInside(LineCount(prev.content))

\* C1: read_file, for a file of N lines and requested ranges (s, e) with
\* 1 <= s <= e <= N: each range yields its own block, in request order, and
\* the block of (s, e) holds exactly the lines s..e, line i annotated with i.
C1_ReadRangeExact ==
    ReadOfRanges =>
        LET blocks == ret.payload[Len(ret.payload)].blocks
            n == LineCount(prev.content)
        IN  /\ Len(ret.payload) = 1
            /\ Len(blocks) = Len(RequestedRanges)
            /\ \A k \in 1..Len(RequestedRanges) : \A s \in 1..n, e \in 1..n :
                  (s <= e /\ RangeIs(k, s, e)) =>
                      blocks[k] = Block(LinesAttr(s, e), NumberedRange(prev.content, s, e))

\* ---- C2 ----
\* C2: insert_content into a newline-terminated file of N lines, at a line L
\* with 1 <= L <= N, of content made of newline-terminated lines: the file
\* becomes lines 1..L-1, the content, lines L..N, and nothing else.
C2_InsertExact ==
    ( /\ call.tool = "insert_content"
      /\ prev.kind = "file" /\ prev.writable
      /\ EndsWithNL(prev.content) /\ EndsWithNL(call.content)
      /\ 1 <= call.line /\ call.line <= LineCount(prev.content) )
    => /\ ret = Returned(InsertSuccessMsg)
       /\ fs.content = LinesText(prev.content, 1, call.line - 1) \o call.content
                         \o LinesText(prev.content, call.line, LineCount(prev.content))

\* ---- C3 ----
\* C3: search_and_replace with use_regex = false (case-sensitive, whole
\* file): the file holds the original with every non-overlapping occurrence
\* of the search string, taken literally, replaced by the replace string.
C3_LiteralReplace ==
    ( /\ call.tool = "search_and_replace"
      /\ ~call.use_regex /\ ~call.ignore_case
      /\ call.start_line = None /\ call.end_line = None
      /\ call.search # <<>>
      /\ prev.kind = "file" /\ prev.writable )
    => /\ ret.kind = "returned"
       /\ fs.content = Replace(prev.content, call.search, call.replace)

\* ---- C4 ----
\* the bounds of the range of the last call, an omitted bound being the
\* first or the last line
RangeLo == IF call.start_line = None THEN 1 ELSE Val(call.start_line)
RangeHi == IF call.end_line = None THEN LineCount(prev.content) ELSE Val(call.end_line)

\* the lines of the original before the range, and those after it
TextBeforeRange == LinesText(prev.content, 1, Min(RangeLo - 1, LineCount(prev.content)))
TextAfterRange ==
    LinesText(prev.content, Max(Max(RangeHi + 1, RangeLo), 1), LineCount(prev.content))

RangedReplace ==
    /\ call.tool = "search_and_replace"
    /\ call.start_line # None \/ call.end_line # None
    /\ prev.kind = "file"

\* C4: search_and_replace with start_line and/or end_line: the lines of the
\* original before start_line and after end_line are in the result byte for
\* byte, at its start and at its end; nothing is substituted in them.
C4_RangeFrame ==
    RangedReplace =>
        /\ fs.kind = "file"
        /\ IsPrefix(TextBeforeRange, fs.content)
        /\ IsSuffix(TextAfterRange, fs.content)
        /\ Len(fs.content) >= Len(TextBeforeRange) + Len(TextAfterRange)

\* a replacement inside the range 2..2 of three lines that all hold a match
C4_Witness ==
    /\ RangedReplace
    /\ ret = Returned(SRSuccessMsg)
    /\ call.search = <<"a">> /\ call.replace = <<"b">>
    /\ call.start_line = Some(2) /\ call.end_line = Some(2)
    /\ prev.content = <<"a", "x", NL, "a", "x", NL, "a", "x", NL>>
    /\ fs.content = <<"a", "x", NL, "b", "x", NL, "a", "x", NL>>

\* ---- C5 ----
\* C5: insert_content at line 1 into an empty file (no file at the path, or
\* a file of zero length) yields a file whose content is the inserted content.
C5_InsertIntoEmpty ==
    ( /\ call.tool = "insert_content"
      /\ call.line = 1
      /\ prev.writable
      /\ prev.kind = "absent" \/ (prev.kind = "file" /\ prev.content = <<>>) )
    => /\ fs.kind = "file"
       /\ fs.content = call.content

\* ---- C6 ----
\* a text with the content appended after its last line
Appended(text, content) ==
    (IF Len(text) > 0 /\ ~EndsWithNL(text) THEN text \o <<NL>> ELSE text) \o content

\* C6: insert_content with line = 0, and with line = N + 1 (N the line count
\* of the file), gives the file with the content appended after its last
\* line (with or without a final newline added).
C6_AppendAtZeroOrEnd ==
    ( /\ call.tool = "insert_content"
      /\ prev.kind = "file" /\ prev.writable
      /\ call.line \in {0, LineCount(prev.content) + 1} )
    => fs.content \in {Appended(prev.content, call.content),
                       Appended(prev.content, call.content) \o <<NL>>}

\* ---- C7 ----
\* a line "[m] text": a marker, one space, text without spaces around it
WellFormedTodo(line) ==
    /\ Len(line) >= 5
    /\ line[1] = "[" /\ line[2] \in {"x", "X", "-", "~", " "} /\ line[3] = "]"
    /\ line[4] = " "
    /\ line[5] \notin Whitespace /\ line[Len(line)] \notin Whitespace

MarkerStatus(m) ==
    CASE m \in {"x", "X"} -> "completed"
      [] m \in {"-", "~"} -> "in_progress"
      [] m = " " -> "pending"

RenderedMarker(status) ==
    CASE status = "completed" -> "x"
      [] status = "in_progress" -> "-"
      [] status = "pending" -> " "

RenderedTodo(status, text) == <<"[", RenderedMarker(status), "]", " ">> \o text

\* C7: update_todo_list turns each line "[x] t"/"[X] t" into a completed,
\* "[-] t"/"[~] t" into an in_progress, "[ ] t" into a pending item with
\* content t, in input order, and the markdown it returns holds one line per
\* item: "[x] ", "[-] " or "[ ] " and the content.
C7_TodoParseRender ==
    call.tool = "update_todo_list" =>
        LET lines == Split(call.todos)
            items == ret.payload.items
            md == ret.payload.markdown
        IN  /\ ret.kind = "returned" /\ ret.msg = TodoSuccessMsg
            /\ md = Join([i \in 1..Len(items) |->
                            RenderedTodo(items[i].status, items[i].content)])
            /\ (\A i \in 1..Len(lines) : WellFormedTodo(lines[i])) =>
                  /\ Len(items) = Len(lines)
                  /\ \A i \in 1..Len(lines) :
                        /\ items[i].status = MarkerStatus(lines[i][2])
                        /\ items[i].content = Drop(lines[i], 5)

\* the example: "[x] A\n[-] B\n[ ] C" gives completed, in_progress, pending
\* and comes back as the same three lines
C7_Witness ==
    /\ call.tool = "update_todo_list"
    /\ call.todos = <<"[", "x", "]", " ", "A", NL, "[", "-", "]", " ", "B", NL,
                      "[", " ", "]", " ", "C">>
    /\ Len(ret.payload.items) = 3
    /\ ret.payload.items[1].status = "completed"
    /\ ret.payload.items[2].status = "in_progress"
    /\ ret.payload.items[3].status = "pending"
    /\ ret.payload.markdown = call.todos

\* ---- C8 ----
\* the last call was a repeat: the same call ran just before it
Repeated == runs >= 2

\* C8 as stated: a second run of any mutating tool with the same inputs
\* returns the no-op message or leaves the file as the first run left it.
C8_RepeatIsNoOpOrIdempotent ==
    (Repeated /\ call.tool \in MutatingTools) => (ret.msg \in NoOpMsgs \/ fs = prev)

\* C8 amended: a second run of apply_diff or write_to_file with the same
\* inputs leaves the file as the first run left it.
C8_RepeatDiffWriteIdempotent ==
    (Repeated /\ call.tool \in {"apply_diff", "write_to_file"}) => fs = prev

\* a second apply_diff that succeeds on the file the first one wrote
C8_Witness ==
    /\ Repeated
    /\ call.tool = "apply_diff"
    /\ ret = Returned(DiffSuccessMsg)
    /\ call.diff = <<"a", "x", NL, "Z">>
    /\ fs.content = call.diff
    /\ fs = prev

\* ---- C9 ----
\* C9: every tool call returns a string; no failure reaches the caller as a
\* raised exception.
C9_NeverRaises == ret.kind # "raised"

\* ---- C10 ----
\* C10: when the content a region mutator computes is the content the file
\* already has, the tool returns a no-op message, which is neither a success
\* nor an error message.
C10_NoOpReported ==
    /\ NoOpMsgs \cap (SuccessMsgs \cup ErrorMsgs) = {}
    /\ ( /\ call.tool \in RegionMutators
         /\ prev.kind = "file"
         /\ ret.kind = "returned" /\ ret.msg \notin ErrorMsgs
         /\ fs.content = prev.content )
       => ret.msg \in NoOpMsgs

\* ---- C11 ----
\* the last call gave both bounds, start_line above end_line
InvertedRange ==
    /\ call.tool = "search_and_replace"
    /\ call.start_line # None /\ call.end_line # None
    /\ Val(call.start_line) > Val(call.end_line)

\* C11: search_and_replace with start_line and end_line both given and
\* start_line > end_line replaces nothing: the file is left as it was and an
\* error comes back, which is the invalid-line-range error whenever the file
\* could be read; the bounds are never swapped.
C11_InvertedRangeRejected ==
    InvertedRange =>
        /\ fs = prev
        /\ ret.kind = "returned" /\ ret.msg \in ErrorMsgs
        /\ prev.kind = "file" => ret = Returned(SRInvalidRangeMsg)

\* lines 3..1 of a file of three lines that all hold a match
C11_Witness ==
    /\ InvertedRange
    /\ call.start_line = Some(3) /\ call.end_line = Some(1)
    /\ call.search = <<"a">> /\ call.replace = <<"b">>
    /\ prev = File(<<"a", "x", NL, "a", "x", NL, "a", "x", NL>>, TRUE)
    /\ ret = Returned(SRInvalidRangeMsg)
    /\ fs = prev

\* ---- C12 ----
WriteSucceeded == call.tool = "write_to_file" /\ ret = Returned(WriteSuccessMsg)

\* C12 as stated: after write_to_file reports success the file holds exactly
\* the given content, whether or not a file was there before.
C12_WriteExact ==
    WriteSucceeded => (fs.kind = "file" /\ fs.content = call.content)

\* content that, without the whitespace around it, starts and ends with a
\* code fence and has more than two lines
FencedBlock(content) ==
    /\ IsPrefix(Fence, Strip(content)) /\ IsSuffix(Fence, Strip(content))
    /\ Cardinality({i \in 1..Len(Strip(content)) : Strip(content)[i] = NL}) >= 2

\* the text between the first and the last NL of a text
BetweenOuterNLs(text) ==
    LET nls == {i \in 1..Len(text) : text[i] = NL}
        first == CHOOSE i \in nls : \A j \in nls : i <= j
        last == CHOOSE i \in nls : \A j \in nls : j <= i
    IN  SubSeq(text, first + 1, last - 1)

\* C12 amended: after write_to_file reports success the file holds the given
\* content, except for a fenced block, of which it holds the lines between
\* the first and the last line; this whether or not a file was there before.
C12_WriteExactUnlessFenced ==
    WriteSucceeded =>
        /\ fs.kind = "file"
        /\ fs.content = IF FencedBlock(call.content)
                        THEN BetweenOuterNLs(Strip(call.content))
                        ELSE call.content

\* a fenced block written to a path that had no file
C12_Witness ==
    /\ WriteSucceeded
    /\ prev.kind = "absent"
    /\ call.content = Fence \o <<NL, "W", NL>> \o Fence
    /\ fs = File(<<"W">>, TRUE)

\* ---- C13 ----
HasPath(e) == e.path # NoPath

\* the <file> elements of the last call that name a path
RequestedFiles == SelectSeq(call.file_elems, HasPath)

\* a well-formed <line_range> text
ValidRangeText(r) == \E s \in 1..(MaxLines + 1), e \in 1..(MaxLines + 1) : s <= e /\ r = LinesAttr(s, e)

\* the last call asked for several paths, with well-formed ranges only
BatchRead ==
    /\ call.tool = "read_file" /\ call.xml_ok
    /\ Len(RequestedFiles) >= 2
    /\ \A k \in 1..Len(RequestedFiles) : \A i \in 1..Len(RequestedFiles[k].ranges) :
          ValidRangeText(RequestedFiles[k].ranges[i])

C14_AtMostFiveFiles ==
    (call.tool = "read_file" /\ ret.msg = ReadFilesMsg) =>
        Len(ret.payload) <= MaxFilesPerRequest

\* ---- C15 ----
\* the last call was apply_diff on a writable file, with a start_line from 1
\* to one past its last line
DiffAtValidLine ==
    /\ call.tool = "apply_diff"
    /\ prev.kind = "file" /\ prev.writable
    /\ call.start_line # None
    /\ 1 <= Val(call.start_line) /\ Val(call.start_line) <= LineCount(prev.content) + 1

\* C15: apply_diff with a valid start_line S leaves the file holding the
\* original lines 1..S-1 followed by the replacement lines (the diff, its
\* HTML entities unescaped), and nothing else.
C15_DiffKeepsLinesBefore ==
    DiffAtValidLine =>
        /\ ret = Returned(DiffSuccessMsg)
        /\ fs.content = LinesText(prev.content, 1, Val(call.start_line) - 1)
                          \o unescape_html_entities_mock(call.diff)

\* ---- C16 ----
\* the lines of the last todo input
TodoLinesGiven == Split(call.todos)

\* a line that is a marker, one space and non-empty text
StrictTodo(line) ==
    /\ Len(line) >= 5
    /\ line[1] = "[" /\ line[2] \in {" ", "x", "X", "-", "~"} /\ line[3] = "]"
    /\ line[4] = " "

\* C16 as stated: a line yields an item if and only if it is a marker, one
\* space and non-empty text; the other lines are dropped without an error.
C16_StrictAcceptance ==
    call.tool = "update_todo_list" =>
        /\ ret.kind = "returned" /\ ret.msg = TodoSuccessMsg
        /\ Len(ret.payload.items) = Len(SelectSeq(TodoLinesGiven, StrictTodo))

\* a line that, without the whitespace around it, is "[", a marker character
\* with any blanks before and after it, "]", one blank or more, and text
LenientTodo(line) ==
    LET s == Strip(line)
    IN  \E i \in 0..Len(s), j \in 0..Len(s), m \in 1..Len(s) :
           /\ Len(s) >= 4 + i + j + m
           /\ s[1] = "["
           /\ \A k \in 2..(1 + i) : s[k] \in {" ", "\t"}
           /\ s[2 + i] \in {" ", "x", "X", "-", "~"}
           /\ \A k \in (3 + i)..(2 + i + j) : s[k] \in {" ", "\t"}
           /\ s[3 + i + j] = "]"
           /\ \A k \in (4 + i + j)..(3 + i + j + m) : s[k] \in {" ", "\t"}

\* the text of such a line: what follows its "]", without blanks around it
TextOfTodo(line) ==
    LET s == Strip(line)
        close == CHOOSE p \in 1..Len(s) : s[p] = "]" /\ \A q \in 1..(p - 1) : s[q] # "]"
    IN  Strip(Drop(s, close + 1))

\* C16 amended: a line yields an item if and only if, without the
\* whitespace around it, it is "[", one marker character (blank, x, X, -, ~)
\* with any blanks around it, "]", at least one blank, and non-empty text;
\* every other line is dropped without an error, and the items come in the
\* order of their lines.
C16_LenientAcceptance ==
    call.tool = "update_todo_list" =>
        LET accepted == SelectSeq(TodoLinesGiven, LenientTodo)
            items == ret.payload.items
        IN  /\ ret.kind = "returned" /\ ret.msg = TodoSuccessMsg
            /\ Len(items) = Len(accepted)
            /\ \A k \in 1..Len(accepted) : items[k].content = TextOfTodo(accepted[k])

\* a line with blanks inside the brackets is taken, a bare word is dropped
C16_Witness ==
    /\ call.tool = "update_todo_list"
    /\ call.todos = <<"[", " ", "x", " ", "]", " ", "D", NL, "A", NL,
                      "[", "-", "]", " ", "B">>
    /\ Len(ret.payload.items) = 2
    /\ ret.payload.items[1].content = <<"D">> /\ ret.payload.items[1].status = "completed"
    /\ ret.payload.items[2].content = <<"B">>

\* ---- C17 ----
\* C17: with the hash taken as injective, two items of a parsed todo list
\* have the same id if and only if they have the same content and the same
\* status.
C17_IdIsContentAndStatus ==
    call.tool = "update_todo_list" =>
        LET items == ret.payload.items
        IN  \A i \in 1..Len(items), j \in 1..Len(items) :
               items[i].id = items[j].id
                 <=> (items[i].content = items[j].content /\ items[i].status = items[j].status)

\* A completed twice, with one id, and A pending, with another
C17_Witness ==
    /\ call.tool = "update_todo_list"
    /\ call.todos = <<"[", "x", "]", " ", "A", NL, "[", " ", "]", " ", "A", NL,
                      "[", "X", "]", " ", "A">>
    /\ Len(ret.payload.items) = 3
    /\ ret.payload.items[1].id = ret.payload.items[3].id
    /\ ret.payload.items[1].id # ret.payload.items[2].id
    /\ ret.payload.items[1].content = ret.payload.items[2].content

\* ---- C18 ----
InsertSucceeded == call.tool = "insert_content" /\ ret = Returned(InsertSuccessMsg)

\* text is what is left of result when one contiguous block is deleted
LeftAfterDeletingBlock(text, result) ==
    /\ Len(result) >= Len(text)
    /\ \E p \in 0..Len(text) :
          /\ SubSeq(result, 1, p) = SubSeq(text, 1, p)
          /\ SubSeq(result, Len(result) - (Len(text) - p) + 1, Len(result))
               = SubSeq(text, p + 1, Len(text))

\* C18: after a successful insert_content the original content is what is
\* left of the file when one contiguous block is deleted from it: no line
\* of the original is removed, altered or moved.
C18_InsertKeepsContent ==
    InsertSucceeded =>
        /\ fs.kind = "file"
        /\ LeftAfterDeletingBlock(prev.content, fs.content)

\* an insert between the two lines of a file
C18_Witness ==
    /\ InsertSucceeded
    /\ call.line = 2 /\ call.content = <<"N">>
    /\ prev = File(<<"a", "x", NL, "a", "x", NL>>, TRUE)
    /\ fs.content = <<"a", "x", NL, "N", NL, "a", "x", NL>>

\* ---- C19 ----
\* C19: after a successful insert_content, a file that ended with a newline
\* still ends with one, and a file that did not end with a newline, given
\* content that does not end with one, does not end with one.
C19_TrailingNewlineRule ==
    InsertSucceeded =>
        /\ EndsWithNL(prev.content) => EndsWithNL(fs.content)
        /\ (~EndsWithNL(prev.content) /\ ~EndsWithNL(call.content)) => ~EndsWithNL(fs.content)

\* ---- C20 ----
\* both callers are done, both were told of success, and both had read the
\* file before either wrote it
BothSucceededOnSameRead ==
    /\ \A p \in 1..2 : procs[p].pc = "done" /\ procs[p].ret.msg \in SuccessMsgs
    /\ \A p \in 1..2 : procs[p].read = prev

\* C20: two calls of mutating tools on one file whose unlocked reads both
\* come before the writes both return success, and the file then holds what
\* one of the calls alone makes of the original: the effect of the other is
\* lost.
C20_LostUpdate ==
    BothSucceededOnSameRead =>
        \E p \in 1..2 : fs = Apply(procs[p].call, prev).fs

\* read A, read B, write A, write B: both inserts succeed and the file holds
\* the second one only
C20_Witness ==
    /\ BothSucceededOnSameRead
    /\ prev = File(<<"a", "x", NL>>, TRUE)
    /\ procs[1].call = InsertCall(1, <<"N">>)
    /\ procs[2].call = InsertCall(1, <<"M">>)
    /\ fs.content = <<"M", NL, "a", "x", NL>>
    /\ fs # Apply(procs[2].call, Apply(procs[1].call, prev).fs).fs
    /\ fs # Apply(procs[1].call, Apply(procs[2].call, prev).fs).fs

\* ---- C21 ----
\* the last call named a line below 0: insert_content in line,
\* search_and_replace in start_line or in end_line
NegativeLineCall ==
    \/ call.tool = "insert_content" /\ call.line < 0
    \/ /\ call.tool = "search_and_replace"
       /\ \/ call.start_line # None /\ Val(call.start_line) < 0
          \/ call.end_line # None /\ Val(call.end_line) < 0

\* C21: a negative line is always rejected: insert_content with line < 0
\* returns the invalid-line-number error, search_and_replace with a negative
\* start_line or end_line (alone or together) returns the invalid-range error
\* whenever the file could be read, and in every such call the file is left
\* as it was.
C21_NegativeLineRejected ==
    NegativeLineCall =>
        /\ fs = prev
        /\ call.tool = "insert_content" => ret = Returned(InsertInvalidLineMsg)
        /\ (call.tool = "search_and_replace" /\ prev.kind = "file")
              => ret = Returned(SRInvalidRangeMsg)

\* ---- C22 ----
\* the last call was insert_content at line 0 or at line 1
InsertAtZeroOrOne == call.tool = "insert_content" /\ call.line \in {0, 1}

InsertBeyondEnd ==
    /\ call.tool = "insert_content"
    /\ prev.kind = "file"
    /\ call.line > LineCount(prev.content)

\* C23: insert_content clamps a line L above the line count N of an existing
\* file to the end: the call gives what the call with L = N + 1 gives, and a
\* successful one leaves the content directly after the last existing line
\* (with or without a final newline added).
C23_ClampToEnd ==
    InsertBeyondEnd =>
        /\ Outcome(fs, ret)
             = insert_content_function(prev, LineCount(prev.content) + 1, call.content)
        /\ InsertSucceeded =>
              fs.content \in {Appended(prev.content, call.content),
                              Appended(prev.content, call.content) \o <<NL>>}

\* ---- C24 ----
\* the mode after the i-th call of switch_mode
ModeAfter(i) ==
    IF i < Len(switches) THEN switches[i + 1].before ELSE current_simulated_mode

\* the slug of the most recent call that named a known mode, "default" if
\* there is none
LastKnownSlug ==
    LET known == {i \in 1..Len(switches) : switches[i].mode_slug \in DOMAIN MODES_STUB}
    IN  IF known = {} THEN "default"
        ELSE switches[CHOOSE i \in known : \A j \in known : j <= i].mode_slug

DiffSucceeded == call.tool = "apply_diff" /\ ret = Returned(DiffSuccessMsg)

\* the text with "&lt;" and "&amp;" turned into "<" and "&", in this order
RECURSIVE Unescaped(_)
Unescaped(text) ==
    LET lt == <<"&", "l", "t", ";">>
        amp == <<"&", "a", "m", "p", ";">>
    IN  IF \E p \in 1..Len(text) : HasAt(text, lt, p)
        THEN LET p == CHOOSE q \in 1..Len(text) :
                        HasAt(text, lt, q) /\ \A r \in 1..(q - 1) : ~HasAt(text, lt, r)
             IN  SubSeq(text, 1, p - 1) \o <<"<">> \o Unescaped(Drop(text, p + Len(lt)))
        ELSE IF \E p \in 1..Len(text) : HasAt(text, amp, p)
        THEN LET p == CHOOSE q \in 1..Len(text) :
                        HasAt(text, amp, q) /\ \A r \in 1..(q - 1) : ~HasAt(text, amp, r)
             IN  SubSeq(text, 1, p - 1) \o <<"&">> \o Unescaped(Drop(text, p + Len(amp)))
        ELSE text

RejectionMsgs ==
    {InsertInvalidLineMsg, InsertReadErrorMsg, InsertNoFileMsg, InsertNoOpMsg,
     SRNoFileMsg, SRReadErrorMsg, SRInvalidRegexMsg, SRInvalidRangeMsg, SRNoOpMsg,
     DiffNoFileMsg, DiffReadErrorMsg, DiffApplyErrorMsg}

\* the last call was one of the three tools and returned such a message
Rejected ==
    /\ call.tool \in RegionMutators
    /\ ret.kind = "returned" /\ ret.msg \in RejectionMsgs

\* C26: whenever insert_content, search_and_replace or apply_diff returns a
\* not-found, invalid-input or no-op message, the filesystem is exactly as
\* before the call: no file is created and no content is modified.
C26_UnchangedOnFailure == Rejected => fs = prev

\* an apply_diff with a start_line beyond the end of a file that holds text
C26_Witness ==
    /\ Rejected
    /\ call.tool = "apply_diff" /\ call.diff = <<"a", "x", NL, "Z">>
    /\ call.start_line = Some(MaxLines + 1)
    /\ prev = File(<<"a", "x", NL>>, TRUE)
    /\ ret = Returned(DiffApplyErrorMsg)
    /\ fs = prev

\* ---- C27 ----
\* the last call was search_and_replace on a readable file with both bounds
\* given and 1 <= start_line <= end_line
OrderedRange ==
    /\ call.tool = "search_and_replace"
    /\ prev.kind = "file"
    /\ call.start_line # None /\ call.end_line # None
    /\ 1 <= Val(call.start_line) /\ Val(call.start_line) <= Val(call.end_line)

\* C27: search_and_replace returns the invalid-line-range error only for
\* inverted bounds: for every file, an empty one and one shorter than the
\* range included, a call with 1 <= start_line <= end_line does not return
\* the "start_line is greater than end_line" error.
C27_OrderedRangeAccepted == OrderedRange => ret # Returned(SRInvalidRangeMsg)

\* ---- C28 ----
\* a <line_range> text "s-e" that is no range: start above end, or a bound 0
InvalidRangeText(r) ==
    \E s \in 0..(MaxLines + 1), e \in 0..(MaxLines + 1) :
        r = LinesAttr(s, e) /\ ~(s > 0 /\ e > 0 /\ s <= e)

\* the paths the last read_file call gave an invalid range for
InvalidRangePaths ==
    IF call.tool = "read_file" /\ call.xml_ok
    THEN {RequestedFiles[k].path : k \in {j \in 1..Len(RequestedFiles) :
             \E i \in 1..Len(RequestedFiles[j].ranges) :
                 InvalidRangeText(RequestedFiles[j].ranges[i])}}
    ELSE IF /\ call.tool = "read_file_legacy" /\ call.path # NoPath
            /\ call.start_line # None /\ call.end_line # None
            /\ ~(/\ Val(call.start_line) > 0 /\ Val(call.end_line) > 0
                 /\ Val(call.start_line) <= Val(call.end_line))
    THEN {call.path}
    ELSE {}

\* the texts of the well-formed ranges the last call asked for
ValidRangesAsked ==
    IF call.tool = "read_file"
    THEN UNION {{RequestedFiles[k].ranges[i] : i \in 1..Len(RequestedFiles[k].ranges)} :
                   k \in 1..Len(RequestedFiles)}
           \cap {LinesAttr(s, e) : s \in 1..(MaxLines + 1), e \in 1..(MaxLines + 1)}
    ELSE {}

\* C28: read_file with an invalid line range (start > end, or a bound of 0)
\* for a file reports an invalid-range error for that path and substitutes
\* no other range: no content of that file, in particular not the whole
\* file, is returned on account of the invalid range.
C28_InvalidRangeNotReplaced ==
    \A path \in InvalidRangePaths :
        /\ ret.kind = "returned" /\ ret.msg = ReadFilesMsg
        /\ \E k \in 1..Len(ret.payload) :
              /\ ret.payload[k].path = path
              /\ ret.payload[k].error \in {ReadInvalidRangeMsg, ReadInvalidLegacyRangeMsg}
        /\ \A k \in 1..Len(ret.payload) :
              ret.payload[k].path = path =>
                  \A b \in 1..Len(ret.payload[k].blocks) :
                      ret.payload[k].blocks[b].lines \in ValidRangesAsked

\* ---- C29 ----
\* a step that calls update_todo_list with the markdown the call before it
\* returned
FedBack ==
    /\ call.tool = "update_todo_list"
    /\ call'.tool = "update_todo_list"
    /\ runs' = runs + 1
    /\ call'.todos = ret.payload.markdown

\* C29: todo normalization is idempotent: update_todo_list given the markdown
\* it returned returns the same markdown, with the same items, contents,
\* statuses and ids.
C29_TodoIdempotent ==
    [][FedBack => /\ ret'.msg = TodoSuccessMsg
                  /\ ret'.payload.markdown = ret.payload.markdown
                  /\ ret'.payload.items = ret.payload.items]_vars

\* the second call was given the markdown of three items that the first
\* call returned, and returned it again
C29_Witness ==
    /\ runs = 2 /\ call.tool = "update_todo_list"
    /\ call.todos = Join(<< <<"[", "x", "]", " ", "A">>, <<"[", "-", "]", " ", "B">>,
                           <<"[", "x", "]", " ", "D">> >>)
    /\ ret.payload.markdown = call.todos
    /\ Len(ret.payload.items) = 3
    /\ ret.payload.items[3] = TodoItem(md5_hexdigest(<<"D">> \o StatusText("completed")),
                                       <<"D">>, "completed")

\* ---- C30 ----
\* whether a text is among those a returned string holds
Holds(r, text) == \E k \in 1..Len(r.texts) : r.texts[k] = text

\* the text the stub has for a (server_name, uri) it knows with text content:
\* <<>> for every other pair
CannedText(server_name, uri) ==
    IF server_name = "GitHub_MCP" /\ uri = "/repos/my_repo/README.md"
    THEN <<"# My Repository\n\nThis is a sample README file.">>
    ELSE IF server_name = "Jira_MCP" /\ uri = "/issues/PROJ-123/description"
    THEN <<"Description for PROJ-123: Implement feature X and fix bug Y.">>
    ELSE <<>>

\* whether the stub knows the pair, with text or with an image
KnownResource(server_name, uri) ==
    \/ CannedText(server_name, uri) # <<>>
    \/ server_name = "GitHub_MCP" /\ uri = "/users/octocat/avatar.png"

\* the detail text of the stub for an unknown server or uri
DetailText(server_name, uri) ==
    IF server_name \in {"GitHub_MCP", "Jira_MCP"}
    THEN <<IF server_name = "GitHub_MCP"
           THEN "Resource not found for GitHub_MCP at URI: "
           ELSE "Resource not found for Jira_MCP at URI: ", uri>>
    ELSE <<"Unknown MCP server: ", server_name>>

\* C30: access_mcp_resource returns the canned resource content: for every
\* (server_name, uri) the stub knows with text content the result is a
\* success string that holds the text of the resource; for an unknown server
\* or uri it is an error string that holds the detail text of the stub.
C30_CannedContentReturned ==
    \A i \in 1..Len(mcp) :
        LET c == mcp[i]
        IN  /\ CannedText(c.server_name, c.uri) # <<>> =>
                  c.ret.msg = "Result:" /\ Holds(c.ret, CannedText(c.server_name, c.uri))
            /\ ~KnownResource(c.server_name, c.uri) =>
                  /\ c.ret.msg = "Error: Failed to access MCP resource"
                  /\ Holds(c.ret, DetailText(c.server_name, c.uri))

====
